---- MODULE Spec2Model ----
(***************************************************************************)
(* Local model inventory and compatibility assessment of open-chat         *)
(* (src-tauri/src/ollama.rs, src-tauri/src/system_info.rs), with its       *)
(* global shortcut commands (src-tauri/src/lib.rs) and its search cache    *)
(* (src-tauri/src/search.rs).                                              *)
(*                                                                         *)
(* Strings are TLA+ strings; Len, \o and SubSeq act on them as on Rust's   *)
(* str (all names used are ASCII, so bytes and characters coincide).       *)
(***************************************************************************)
EXTENDS Integers, Sequences, FiniteSets, TLC

VARIABLES
    \* ---- classifier harness (try_parse_model_file as a function) ----
    cDirs,      \* directory components of the path handed to the classifier
    cFile,      \* its file name
    cPlatform,  \* target_os of the build: "linux" | "macos" | "windows"
    cSource,    \* ModelSource handed to the classifier
    cMeta,      \* what fs::metadata returns for the file
    cPc,        \* "ready" before the call, "done" after it
    cOut,       \* the Option<LocalModel> returned (None before the call)
    \* ---- discovery (discover_local_models over a filesystem) ----
    target_os,  \* target_os of the build: "linux" | "macos" | "windows"
    home,       \* whether the home directory variable resolves
    dirs,       \* the filesystem: directory id -> directory
    nextId,     \* the next unused directory id
    dPc,        \* "setup" while the filesystem is laid out, "done" after discovery
    dResult,    \* the Result returned by discover_local_models
    \* ---- compatibility (validate_model_compatibility on a host) ----
    host,       \* what the host answers to the probe's queries
    vSize,      \* model_size_bytes, in byte units (UnitsPerGb to the GB)
    vName,      \* model_name
    vPc,        \* "ready" before the call, "done" after it
    vOut,       \* the Result returned by validate_model_compatibility
    \* ---- resource probe (get_system_resources on the OS's output) ----
    os,         \* the build target and what the OS gives back to each query
    pPc,        \* "ready" before the call, "done" after it
    pOut,       \* the Result returned by get_system_resources
    \* ---- concurrent commands (discover, probe and validate calls) ----
    calls,      \* call id -> the call's position and local variables
    epoch,      \* how often the host has changed (when that is recorded)
    history,    \* the host's answers at each epoch, oldest first
    \* ---- one scan (scan_directory_for_models on a directory tree) ----
    sSource,    \* the ModelSource handed to the top-level call
    sPc,        \* "setup" while the tree is laid out, "done" after the scan
    sOut,       \* the Result returned by scan_directory_for_models
    \* ---- global shortcut (lib.rs: the shortcut commands) ----
    REGISTERED_SHORTCUTS,  \* the static Vec<String> of tracked shortcuts
    registered, \* the shortcuts the plugin holds registered for this application
    others,     \* the shortcuts other applications hold
    kResult,    \* the Result of the last shortcut command
    kCalls,     \* how many shortcut commands have been made
    \* ---- search cache (search.rs: tool_web_search) ----
    SEARCH_CACHE,  \* the static HashMap: cache key -> (SearchOutput, SystemTime)
    clock,      \* what SystemTime::now() reads, in seconds
    elapsed,    \* the seconds that have really passed since the start
    setBack,    \* whether the system clock has ever been set back
    requests    \* request id -> the tool_web_search call's position and locals

classifyVars == <<cDirs, cFile, cPlatform, cSource, cMeta, cPc, cOut>>
discoverVars == <<target_os, home, dirs, nextId, dPc, dResult>>
compatVars == <<host, vSize, vName, vPc, vOut>>
probeVars == <<os, pPc, pOut>>
callVars == <<calls, epoch, history>>
scanVars == <<sSource, sPc, sOut>>
shortcutVars == <<REGISTERED_SHORTCUTS, registered, others, kResult, kCalls>>
cacheVars == <<SEARCH_CACHE, clock, elapsed, setBack, requests>>
vars == <<classifyVars, discoverVars, compatVars, probeVars, callVars, scanVars,
          shortcutVars, cacheVars>>

-----------------------------------------------------------------------------
(* Rust str and Path primitives                                            *)

\* str::ends_with
EndsWith(s, suf) ==
    /\ Len(s) >= Len(suf)
    /\ SubSeq(s, Len(s) - Len(suf) + 1, Len(s)) = suf

\* str::starts_with
StartsWith(s, pre) == Len(s) >= Len(pre) /\ SubSeq(s, 1, Len(pre)) = pre

\* index of the first occurrence of pat in s, 0 when there is none
FindFirst(s, pat) ==
    LET hits == {i \in 1..(Len(s) - Len(pat) + 1) : SubSeq(s, i, i + Len(pat) - 1) = pat}
    IN IF hits = {} THEN 0 ELSE CHOOSE i \in hits : \A j \in hits : i <= j

\* str::contains
Contains(s, pat) == FindFirst(s, pat) # 0

\* str::split(pat).collect(): the pieces between the non-overlapping matches
\* of pat taken left to right; a string without a match is one piece.
RECURSIVE Split(_, _)
Split(s, pat) ==
    LET i == FindFirst(s, pat)
    IN IF i = 0 THEN <<s>>
       ELSE <<SubSeq(s, 1, i - 1)>> \o Split(SubSeq(s, i + Len(pat), Len(s)), pat)

\* the separators std::path recognises on the build target
IsSeparator(c, platform) ==
    IF platform = "windows" THEN c \in {"/", "\\"} ELSE c = "/"

\* Path::file_name for a path that ends in a file name: the text after the
\* last separator; None (here "") when that text is "..".
PathFileName(path, platform) ==
    LET seps == {i \in 1..Len(path) : IsSeparator(SubSeq(path, i, i), platform)}
        last == IF seps = {} THEN 0 ELSE CHOOSE i \in seps : \A j \in seps : j <= i
        name == SubSeq(path, last + 1, Len(path))
    IN IF name = ".." THEN "" ELSE name

\* Path::file_stem().unwrap_or_default(): the file name up to its last ".",
\* the whole name when it has no "." or only a leading one.
PathFileStem(path, platform) ==
    LET name == PathFileName(path, platform)
        dots == {i \in 1..Len(name) : SubSeq(name, i, i) = "."}
        last == IF dots = {} THEN 0 ELSE CHOOSE i \in dots : \A j \in dots : j <= i
    IN IF last <= 1 THEN name ELSE SubSeq(name, 1, last - 1)

-----------------------------------------------------------------------------
(* Model classifier: ollama.rs, try_parse_model_file and its helpers       *)

ModelSource == {"Ollama", "LmStudio", "Other"}

None == [some |-> FALSE]
Some(v) == [some |-> TRUE, value |-> v]

\* variant: the SafeTensors tag spelt in capitals like the other two
determine_model_format_capitals(filename) ==
    IF EndsWith(filename, ".gguf") THEN Some("GGUF")
    ELSE IF EndsWith(filename, ".bin") THEN Some("BIN")
    ELSE IF EndsWith(filename, ".safetensors") THEN Some("SAFETENSORS")
    ELSE None

determine_model_format(filename) ==
    IF EndsWith(filename, ".gguf") THEN Some("GGUF")
    ELSE IF EndsWith(filename, ".bin") THEN Some("BIN")
    ELSE IF EndsWith(filename, ".safetensors") THEN Some("SafeTensors")
    ELSE None

\* the ModelSource::Ollama arm of extract_model_name
ollama_model_name(path, platform) ==
    IF Contains(path, "/manifests/") \/ Contains(path, "\\manifests\\")
    THEN LET parts == IF Contains(path, "/manifests/")
                      THEN Split(path, "/manifests/")
                      ELSE Split(path, "\\manifests\\")
         IN IF Len(parts) > 1
            THEN LET model_path == parts[2]
                     model_parts == IF Contains(model_path, "/")
                                    THEN Split(model_path, "/")
                                    ELSE Split(model_path, "\\")
                 IN IF Len(model_parts) >= 2
                    THEN model_parts[1] \o ":" \o model_parts[2]
                    ELSE IF Len(model_parts) > 0
                    THEN model_parts[1]
                    ELSE PathFileStem(path, platform)
            ELSE PathFileStem(path, platform)
    ELSE PathFileStem(path, platform)

\* variant: the manifests rule applied whatever the source
extract_model_name_any_source(path, source, platform) ==
    ollama_model_name(path, platform)

extract_model_name(path, source, platform) ==
    IF source = "Ollama"
    THEN ollama_model_name(path, platform)
    ELSE PathFileStem(path, platform)

\* variant: a file named "model" accepted for every source
is_model_file_any_source(file_name, source) ==
    \/ EndsWith(file_name, ".gguf")
    \/ EndsWith(file_name, ".bin")
    \/ EndsWith(file_name, ".safetensors")
    \/ file_name = "model"

is_model_file(file_name, source) ==
    \/ EndsWith(file_name, ".gguf")
    \/ EndsWith(file_name, ".bin")
    \/ EndsWith(file_name, ".safetensors")
    \/ (source = "Ollama" /\ file_name = "model")

\* meta is the outcome of fs::metadata(path): [ok |-> TRUE, len |-> n] or
\* [ok |-> FALSE].
\* the LocalModel built for a file that qualifies
local_model(path, file_name, source, meta, platform) ==
    [name       |-> extract_model_name(path, source, platform),
     path       |-> path,
     size_bytes |-> IF meta.ok THEN meta.len ELSE 0,
     source     |-> source,
     format     |-> determine_model_format(file_name)]

\* variant: a file whose metadata cannot be read is passed over
try_parse_model_file_needing_metadata(path, source, meta, platform) ==
    IF PathFileName(path, platform) = "" THEN None
    ELSE IF ~is_model_file(PathFileName(path, platform), source) THEN None
    ELSE IF ~meta.ok THEN None
    ELSE Some(local_model(path, PathFileName(path, platform), source, meta, platform))

\* path.file_name()? leaves with None when the path has no file name
try_parse_model_file(path, source, meta, platform) ==
    IF PathFileName(path, platform) = "" THEN None
    ELSE IF ~is_model_file(PathFileName(path, platform), source) THEN None
    ELSE Some(local_model(path, PathFileName(path, platform), source, meta, platform))

-----------------------------------------------------------------------------
(* Filesystem scanner and discovery aggregator: ollama.rs                  *)

Ok(v) == [ok |-> TRUE, value |-> v]
Err(e) == [ok |-> FALSE, err |-> e]

\* MAIN_SEPARATOR of the build target
MainSeparator(platform) == IF platform = "windows" THEN "\\" ELSE "/"

\* PathBuf::join, as DirEntry::path() does for each entry of a listing
PathJoin(dir, name, platform) ==
    IF dir # "" /\ IsSeparator(SubSeq(dir, Len(dir), Len(dir)), platform)
    THEN dir \o name
    ELSE dir \o MainSeparator(platform) \o name

\* The directories discovery starts from, as ids of the filesystem.
OllamaRoot == 1
LmStudioRootA == 2
LmStudioRootB == 3
Roots == {OllamaRoot, LmStudioRootA, LmStudioRootB}

\* the value of HOME (USERPROFILE on windows) when it is set
HomeDir == IF target_os = "windows" THEN "C:\\h" ELSE "/h"

\* std::env::var("HOME") / USERPROFILE-or-HOMEPATH
home_dir_var == IF home THEN Ok(HomeDir) ELSE Err("NotPresent")

get_ollama_models_directory ==
    IF ~home_dir_var.ok THEN Err("Could not determine home directory")
    ELSE IF target_os = "windows"
    THEN Ok(home_dir_var.value \o "\\AppData\\Local\\ollama\\models")
    ELSE Ok(home_dir_var.value \o "/.ollama/models")

\* variant: the first candidate directory listed twice
get_lmstudio_directories_repeated ==
    IF ~home_dir_var.ok THEN <<>>
    ELSE IF target_os = "windows"
    THEN <<home_dir_var.value \o "\\AppData\\Roaming\\LM Studio\\models",
           home_dir_var.value \o "\\AppData\\Roaming\\LM Studio\\models">>
    ELSE IF target_os = "macos"
    THEN <<home_dir_var.value \o "/Library/Application Support/LM Studio/models",
           home_dir_var.value \o "/Library/Application Support/LM Studio/models">>
    ELSE <<home_dir_var.value \o "/.config/lmstudio/models",
           home_dir_var.value \o "/.config/lmstudio/models">>

get_lmstudio_directories ==
    IF ~home_dir_var.ok THEN <<>>
    ELSE IF target_os = "windows"
    THEN <<home_dir_var.value \o "\\AppData\\Roaming\\LM Studio\\models",
           home_dir_var.value \o "\\Documents\\LM Studio\\models">>
    ELSE IF target_os = "macos"
    THEN <<home_dir_var.value \o "/Library/Application Support/LM Studio/models",
           home_dir_var.value \o "/.lmstudio/models">>
    ELSE <<home_dir_var.value \o "/.config/lmstudio/models",
           home_dir_var.value \o "/.lmstudio/models">>

\* The directory a root path names: the filesystem keeps the three provider
\* directories under ids 1..3.
RootId(path) ==
    IF get_ollama_models_directory.ok /\ path = get_ollama_models_directory.value
    THEN OllamaRoot
    ELSE IF path = get_lmstudio_directories[1] THEN LmStudioRootA
    ELSE LmStudioRootB

\* Path::exists
path_exists(id) == dirs[id].state # "missing"

\* fs::metadata(path).len() of a file entry
file_metadata(entry) ==
    IF entry.meta_ok THEN [ok |-> TRUE, len |-> entry.len] ELSE [ok |-> FALSE, len |-> 0]

RECURSIVE scan_directory_for_models(_, _, _)
RECURSIVE scan_entries(_, _, _, _, _)

\* if let Some(model) = try_parse_model_file(..) { models.push(model) }
push_parsed(models, parsed) ==
    IF parsed.some THEN Append(models, parsed.value) ELSE models

\* variant: a subdirectory that fails to scan empties what was collected
append_scanned_or_reset(models, scanned) ==
    IF scanned.ok THEN models \o scanned.value ELSE <<>>

\* if let Ok(mut subdir_models) = scan_directory_for_models(..)
\*     { models.append(&mut subdir_models) }
append_scanned(models, scanned) ==
    IF scanned.ok THEN models \o scanned.value ELSE models

\* variant: subdirectories are passed over
scan_entry_flat(models, entry, path, source) ==
    IF entry.kind = "file"
    THEN push_parsed(models,
             try_parse_model_file(path, source, file_metadata(entry), target_os))
    ELSE models

\* one pass of the for loop's body on an entry that was read: the models
\* vector after it
scan_entry(models, entry, path, source) ==
    IF entry.kind = "file"
    THEN push_parsed(models,
             try_parse_model_file(path, source, file_metadata(entry), target_os))
    ELSE IF entry.kind = "dir"
    THEN append_scanned(models, scan_directory_for_models(path, entry.id, source))
    ELSE models

\* the for loop of scan_directory_for_models from entry i on, models being
\* what the loop has pushed so far
scan_entries(dir_path, entries, i, models, source) ==
    IF i > Len(entries) THEN Ok(models)
    ELSE IF entries[i].kind = "err"
    THEN Err("Failed to read directory entry: <io>")
    ELSE scan_entries(dir_path, entries, i + 1,
             scan_entry(models, entries[i],
                        PathJoin(dir_path, entries[i].name, target_os), source),
             source)

\* id is the directory dir_path names
scan_directory_for_models(dir_path, id, source) ==
    IF dirs[id].state # "ok"
    THEN Err("Failed to read directory " \o dir_path \o ": <io>")
    ELSE scan_entries(dir_path, dirs[id].entries, 1, <<>>, source)

\* match scan_directory_for_models(&ollama_dir, ModelSource::Ollama)
ollama_scan_result(scanned) ==
    IF scanned.ok THEN Ok(scanned.value)
    ELSE Err("Failed to scan Ollama directory: " \o scanned.err)

\* variant: the directory scanned without asking whether it exists
discover_ollama_in_unchecked(ollama_dir) ==
    ollama_scan_result(
        scan_directory_for_models(ollama_dir, RootId(ollama_dir), "Ollama"))

\* discover_ollama_models once the directory name is known
discover_ollama_in(ollama_dir) ==
    IF ~path_exists(RootId(ollama_dir)) THEN Ok(<<>>)
    ELSE ollama_scan_result(
             scan_directory_for_models(ollama_dir, RootId(ollama_dir), "Ollama"))

discover_ollama_models ==
    IF ~get_ollama_models_directory.ok THEN Err(get_ollama_models_directory.err)
    ELSE discover_ollama_in(get_ollama_models_directory.value)

\* the body of discover_lmstudio_models' for loop: models after directory dir
lmstudio_dir(models, dir) ==
    IF path_exists(RootId(dir))
    THEN append_scanned(models, scan_directory_for_models(dir, RootId(dir), "LmStudio"))
    ELSE models

\* the for loop of discover_lmstudio_models from directory i on
RECURSIVE lmstudio_loop(_, _, _)
lmstudio_loop(lmstudio_dirs, i, models) ==
    IF i > Len(lmstudio_dirs) THEN models
    ELSE lmstudio_loop(lmstudio_dirs, i + 1, lmstudio_dir(models, lmstudio_dirs[i]))

\* variant: the first directory that fails to scan fails the provider
discover_lmstudio_models_failing ==
    IF \E i \in 1..Len(get_lmstudio_directories) :
          /\ path_exists(RootId(get_lmstudio_directories[i]))
          /\ ~scan_directory_for_models(get_lmstudio_directories[i],
                  RootId(get_lmstudio_directories[i]), "LmStudio").ok
    THEN Err("Failed to scan LMStudio directory")
    ELSE Ok(lmstudio_loop(get_lmstudio_directories, 1, <<>>))

discover_lmstudio_models == Ok(lmstudio_loop(get_lmstudio_directories, 1, <<>>))

\* for model in &found { total_size_bytes += model.size_bytes }
RECURSIVE AddSizes(_, _)
AddSizes(total, found) ==
    IF found = <<>> THEN total
    ELSE AddSizes(total + Head(found).size_bytes, Tail(found))

\* variant: the models appended without their sizes being added
match_provider_unsummed(acc, found, label) ==
    IF found.ok
    THEN [acc EXCEPT !.models = @ \o found.value]
    ELSE [acc EXCEPT !.errors = Append(@, label \o found.err)]

\* one match of discover_local_models: acc holds models, total_size_bytes
\* and errors so far, found is the provider's Result and label the text its
\* error is reported under
match_provider(acc, found, label) ==
    IF found.ok
    THEN [acc EXCEPT !.models = @ \o found.value,
                     !.total_size_bytes = AddSizes(@, found.value)]
    ELSE [acc EXCEPT !.errors = Append(@, label \o found.err)]

\* Ok(ModelDiscoveryResult { total_count: models.len(), .. })
discovery_result(acc) ==
    Ok([models           |-> acc.models,
        total_count      |-> Len(acc.models),
        total_size_bytes |-> acc.total_size_bytes,
        errors           |-> acc.errors])

\* discover_local_models on what the two providers returned
aggregate(ollama, lmstudio) ==
    discovery_result(
        match_provider(
            match_provider([models |-> <<>>, total_size_bytes |-> 0, errors |-> <<>>],
                           ollama, "Ollama model discovery error: "),
            lmstudio, "LMStudio model discovery error: "))

\* variant: an Ollama failure returned to the caller instead of recorded
aggregate_or_fail(ollama, lmstudio) ==
    IF ~ollama.ok THEN Err(ollama.err) ELSE aggregate(ollama, lmstudio)

discover_local_models_propagating ==
    aggregate_or_fail(discover_ollama_models, discover_lmstudio_models)

discover_local_models == aggregate(discover_ollama_models, discover_lmstudio_models)

-----------------------------------------------------------------------------
(* Resource probe and compatibility evaluator: system_info.rs              *)
(*                                                                         *)
(* Byte counts are kept in units of 1/UnitsPerGb GB and f64 gigabyte       *)
(* values as integers counting 1/(UnitsPerGb * 10) GB, which holds every   *)
(* product of a size and a multiplier exactly.  A ratio is kept as the     *)
(* pair of its numerator and denominator, a score or confidence in         *)
(* hundredths.                                                             *)

UnitsPerGb == 40
\* 1.0 as a gigabyte value
Gb == UnitsPerGb * 10

\* bytes as f64 / (1024.0 * 1024.0 * 1024.0)
bytes_to_gb(bytes) == (bytes * Gb) \div UnitsPerGb

\* variant: the first total a call obtained is kept for every later call
get_total_memory_cached ==
    IF \E c \in DOMAIN calls : calls[c].total.ok
    THEN calls[CHOOSE c \in DOMAIN calls : calls[c].total.ok].total
    ELSE host.total_memory

\* variant: available memory as it was when the host was first looked at
get_available_memory_first_seen ==
    IF history # <<>> THEN history[1].available_memory ELSE host.available_memory

\* Each metric query is kept as its outcome: Ok(bytes) when the OS query ran
\* and its output parsed, Err(message) otherwise.
get_total_memory == host.total_memory
get_available_memory == host.available_memory
get_available_storage == host.available_storage

\* available_parallelism().map(|p| p.get()).unwrap_or(1)
cpu_cores_of(parallelism) == IF parallelism.some THEN parallelism.value ELSE 1

\* std::thread::available_parallelism().map(|p| p.get()).unwrap_or(1)
get_cpu_cores == cpu_cores_of(host.parallelism)

\* variant: the storage query's failure reported before the memory queries
system_resources_storage_first(total, available, storage, cores) ==
    IF ~storage.ok THEN Err(storage.err)
    ELSE IF ~total.ok THEN Err(total.err)
    ELSE IF ~available.ok THEN Err(available.err)
    ELSE Ok([total_memory_gb      |-> bytes_to_gb(total.value),
             available_memory_gb  |-> bytes_to_gb(available.value),
             available_storage_gb |-> bytes_to_gb(storage.value),
             cpu_cores            |-> cores])

\* get_system_resources on what the three metric queries answered
system_resources_from(total, available, storage, cores) ==
    IF ~total.ok THEN Err(total.err)
    ELSE IF ~available.ok THEN Err(available.err)
    ELSE IF ~storage.ok THEN Err(storage.err)
    ELSE Ok([total_memory_gb      |-> bytes_to_gb(total.value),
             available_memory_gb  |-> bytes_to_gb(available.value),
             available_storage_gb |-> bytes_to_gb(storage.value),
             cpu_cores            |-> cores])

\* variant: a storage query that fails counted as no free storage
get_system_resources_zero_storage ==
    IF ~get_total_memory.ok THEN Err(get_total_memory.err)
    ELSE IF ~get_available_memory.ok THEN Err(get_available_memory.err)
    ELSE Ok([total_memory_gb      |-> bytes_to_gb(get_total_memory.value),
             available_memory_gb  |-> bytes_to_gb(get_available_memory.value),
             available_storage_gb |->
                 IF get_available_storage.ok
                 THEN bytes_to_gb(get_available_storage.value) ELSE 0,
             cpu_cores            |-> get_cpu_cores])

get_system_resources ==
    system_resources_from(get_total_memory, get_available_memory,
                          get_available_storage, get_cpu_cores)

\* char::to_lowercase on ASCII
LowerChar(c) ==
    LET i == FindFirst("ABCDEFGHIJKLMNOPQRSTUVWXYZ", c)
    IN IF i = 0 THEN c ELSE SubSeq("abcdefghijklmnopqrstuvwxyz", i, i)

\* str::to_lowercase
RECURSIVE to_lowercase(_)
to_lowercase(s) ==
    IF s = "" THEN "" ELSE LowerChar(Head(s)) \o to_lowercase(Tail(s))

\* variant: the size and vision tests taken largest first
memory_multiplier_largest_first(model_name_lower) ==
    IF Contains(model_name_lower, "70b") \/ Contains(model_name_lower, "70-b") THEN 18
    ELSE IF Contains(model_name_lower, "13b") \/ Contains(model_name_lower, "13-b") THEN 16
    ELSE IF Contains(model_name_lower, "vision") \/ Contains(model_name_lower, "llava") THEN 17
    ELSE IF Contains(model_name_lower, "7b") \/ Contains(model_name_lower, "7-b") THEN 15
    ELSE IF Contains(model_name_lower, "code") \/ Contains(model_name_lower, "coder") THEN 14
    ELSE 12

\* memory_multiplier of estimate_model_memory_requirements, in tenths
memory_multiplier(model_name_lower) ==
    IF Contains(model_name_lower, "7b") \/ Contains(model_name_lower, "7-b") THEN 15
    ELSE IF Contains(model_name_lower, "13b") \/ Contains(model_name_lower, "13-b") THEN 16
    ELSE IF Contains(model_name_lower, "70b") \/ Contains(model_name_lower, "70-b") THEN 18
    ELSE IF Contains(model_name_lower, "vision") \/ Contains(model_name_lower, "llava") THEN 17
    ELSE IF Contains(model_name_lower, "code") \/ Contains(model_name_lower, "coder") THEN 14
    ELSE 12

\* variant: 2.0 applied as a ceiling
minimum_requirement_as_ceiling(estimated_memory) ==
    IF estimated_memory > 2 * Gb THEN 2 * Gb ELSE estimated_memory

\* if estimated_memory < 2.0 { 2.0 } else { estimated_memory }
minimum_requirement(estimated_memory) ==
    IF estimated_memory < 2 * Gb THEN 2 * Gb ELSE estimated_memory

estimate_model_memory_requirements(model_size_bytes, model_name) ==
    minimum_requirement(
        (bytes_to_gb(model_size_bytes) * memory_multiplier(to_lowercase(model_name))) \div 10)

\* ratio >= t, t in tenths
RatioAtLeast(ratio, t) == ratio.num * 10 >= t * ratio.den
\* ratio < t, t in tenths
RatioBelow(ratio, t) == ratio.num * 10 < t * ratio.den

\* variant: a ratio of one half already scored
memory_score_from_half(memory_ratio) ==
    IF RatioAtLeast(memory_ratio, 20) THEN 100
    ELSE IF RatioAtLeast(memory_ratio, 15) THEN 80
    ELSE IF RatioAtLeast(memory_ratio, 5) THEN 60
    ELSE 0

memory_score(memory_ratio) ==
    IF RatioAtLeast(memory_ratio, 20) THEN 100
    ELSE IF RatioAtLeast(memory_ratio, 15) THEN 80
    ELSE IF RatioAtLeast(memory_ratio, 10) THEN 60
    ELSE 0

storage_score(storage_ratio) ==
    IF RatioAtLeast(storage_ratio, 20) THEN 100
    ELSE IF RatioAtLeast(storage_ratio, 15) THEN 90
    ELSE IF RatioAtLeast(storage_ratio, 10) THEN 70
    ELSE 0

Min(a, b) == IF a <= b THEN a ELSE b
Max(a, b) == IF a >= b THEN a ELSE b

\* variant: the two weights exchanged
calculate_confidence_level_swapped(memory_ratio, storage_ratio) ==
    Max(Min((memory_score(memory_ratio) * 3 + storage_score(storage_ratio) * 7) \div 10,
            100), 0)

\* (memory_score * 0.7 + storage_score * 0.3).min(1.0).max(0.0), in hundredths
calculate_confidence_level(memory_ratio, storage_ratio) ==
    Max(Min((memory_score(memory_ratio) * 7 + storage_score(storage_ratio) * 3) \div 10,
            100), 0)

\* let memory_buffer_gb = 2.0
memory_buffer_gb == 2 * Gb
\* let storage_overhead_gb = 1.0
storage_overhead_gb == 1 * Gb

\* variant: the comparison made strict
memory_sufficient_strict(usable_memory_gb, required_memory_gb) ==
    usable_memory_gb > required_memory_gb

\* usable_memory_gb >= required_memory_gb
memory_sufficient_of(usable_memory_gb, required_memory_gb) ==
    usable_memory_gb >= required_memory_gb

\* available_storage_gb >= (model_size_gb + storage_overhead_gb)
storage_sufficient_of(available_storage_gb, model_size_gb) ==
    available_storage_gb >= model_size_gb + storage_overhead_gb

memory_ratio_of(usable_memory_gb, required_memory_gb) ==
    IF required_memory_gb > 0
    THEN [num |-> usable_memory_gb, den |-> required_memory_gb]
    ELSE [num |-> 1, den |-> 1]

\* variant: the ratio taken without the test for an empty model
storage_ratio_of_unguarded(available_storage_gb, model_size_gb) ==
    [num |-> available_storage_gb, den |-> model_size_gb + storage_overhead_gb]

storage_ratio_of(available_storage_gb, model_size_gb) ==
    IF model_size_gb > 0
    THEN [num |-> available_storage_gb, den |-> model_size_gb + storage_overhead_gb]
    ELSE [num |-> 1, den |-> 1]

\* A warning is kept as its text up to the first number and the numbers
\* formatted into it.
memory_warning(memory_sufficient, memory_ratio, required_memory_gb, usable_memory_gb) ==
    IF ~memory_sufficient
    THEN <<[text |-> "Insufficient RAM", args |-> <<required_memory_gb, usable_memory_gb>>]>>
    ELSE IF RatioBelow(memory_ratio, 15)
    THEN <<[text |-> "Tight memory", args |-> <<required_memory_gb, usable_memory_gb>>]>>
    ELSE <<>>

storage_warning(storage_sufficient, needed_gb, available_storage_gb) ==
    IF ~storage_sufficient
    THEN <<[text |-> "Insufficient storage", args |-> <<needed_gb, available_storage_gb>>]>>
    ELSE <<>>

\* variant: four cores counted as few
cpu_warning_inclusive(cpu_cores) ==
    IF cpu_cores <= 4
    THEN <<[text |-> "CPU has fewer than 4 cores. Model inference may be slow.",
            args |-> <<>>]>>
    ELSE <<>>

cpu_warning(cpu_cores) ==
    IF cpu_cores < 4
    THEN <<[text |-> "CPU has fewer than 4 cores. Model inference may be slow.",
            args |-> <<>>]>>
    ELSE <<>>

\* validate_model_compatibility after the probe has answered
compatibility_on(system_resources, model_size_bytes, model_name) ==
    LET model_size_gb == bytes_to_gb(model_size_bytes)
        required_memory_gb == estimate_model_memory_requirements(model_size_bytes, model_name)
        usable_memory_gb == system_resources.available_memory_gb - memory_buffer_gb
        memory_sufficient == memory_sufficient_of(usable_memory_gb, required_memory_gb)
        storage_sufficient ==
            storage_sufficient_of(system_resources.available_storage_gb, model_size_gb)
        memory_ratio == memory_ratio_of(usable_memory_gb, required_memory_gb)
        storage_ratio ==
            storage_ratio_of(system_resources.available_storage_gb, model_size_gb)
    IN [is_compatible       |-> memory_sufficient /\ storage_sufficient,
        confidence_level    |-> calculate_confidence_level(memory_ratio, storage_ratio),
        required_memory_gb  |-> required_memory_gb,
        available_memory_gb |-> usable_memory_gb,
        memory_sufficient   |-> memory_sufficient,
        storage_sufficient  |-> storage_sufficient,
        warnings            |->
            memory_warning(memory_sufficient, memory_ratio, required_memory_gb,
                           usable_memory_gb)
            \o storage_warning(storage_sufficient, model_size_gb + storage_overhead_gb,
                               system_resources.available_storage_gb)
            \o cpu_warning(system_resources.cpu_cores)]

validate_model_compatibility(model_size_bytes, model_name) ==
    IF ~get_system_resources.ok THEN Err(get_system_resources.err)
    ELSE Ok(compatibility_on(get_system_resources.value, model_size_bytes, model_name))

-----------------------------------------------------------------------------
(* Metric queries of the resource probe: system_info.rs, the per-target    *)
(* get_total_memory, get_available_memory and get_available_storage.       *)
(* A query is handed what the operating system gave back: run tells        *)
(* whether the command could be started (the file could be read), text is  *)
(* its standard output (the file's content).                               *)

IsWhitespace(c) == c \in {" ", "\t", "\n", "\r"}

\* str::trim
RECURSIVE TrimStart(_)
TrimStart(s) ==
    IF s # "" /\ IsWhitespace(SubSeq(s, 1, 1)) THEN TrimStart(SubSeq(s, 2, Len(s))) ELSE s

RECURSIVE TrimEnd(_)
TrimEnd(s) ==
    IF s # "" /\ IsWhitespace(SubSeq(s, Len(s), Len(s)))
    THEN TrimEnd(SubSeq(s, 1, Len(s) - 1)) ELSE s

Trim(s) == TrimEnd(TrimStart(s))

\* a line of str::lines without the "\r" of a "\r\n" ending
StripCr(line) ==
    IF EndsWith(line, "\r") THEN SubSeq(line, 1, Len(line) - 1) ELSE line

\* str::lines().collect(), for a text that does not end in a bare "\r": the
\* pieces between "\n", without a last empty piece
Lines(s) ==
    LET parts == Split(s, "\n")
        kept == IF parts[Len(parts)] = "" THEN SubSeq(parts, 1, Len(parts) - 1) ELSE parts
    IN [i \in 1..Len(kept) |-> StripCr(kept[i])]

\* str::split_whitespace().collect(): the maximal runs without whitespace
RECURSIVE SplitWhitespace(_)
SplitWhitespace(s) ==
    LET t == TrimStart(s)
        stops == {i \in 1..Len(t) : IsWhitespace(SubSeq(t, i, i))}
        stop == IF stops = {} THEN Len(t) + 1 ELSE CHOOSE i \in stops : \A j \in stops : i <= j
    IN IF t = "" THEN <<>>
       ELSE <<SubSeq(t, 1, stop - 1)>> \o SplitWhitespace(SubSeq(t, stop, Len(t)))

\* Iterator::nth
Nth(items, n) == IF n < Len(items) THEN Some(items[n + 1]) ELSE None

\* str::replace(c, "")
RECURSIVE Remove(_, _)
Remove(s, c) ==
    IF s = "" THEN ""
    ELSE (IF SubSeq(s, 1, 1) = c THEN "" ELSE SubSeq(s, 1, 1)) \o Remove(SubSeq(s, 2, Len(s)), c)

IsDigits(s) == \A i \in 1..Len(s) : Contains("0123456789", SubSeq(s, i, i))

RECURSIVE DigitsValue(_)
DigitsValue(s) ==
    IF s = "" THEN 0
    ELSE DigitsValue(SubSeq(s, 1, Len(s) - 1)) * 10
            + FindFirst("0123456789", SubSeq(s, Len(s), Len(s))) - 1

\* str::parse::<u64>, for numbers within u64: digits after an optional "+"
ParseU64(s) ==
    LET digits == IF StartsWith(s, "+") THEN SubSeq(s, 2, Len(s)) ELSE s
    IN IF digits # "" /\ IsDigits(digits) THEN Ok(DigitsValue(digits))
       ELSE Err("invalid digit found in string")

\* the figure of a "Key:   n kB" line of /proc/meminfo, when it parses
meminfo_kb(line) ==
    IF Nth(SplitWhitespace(line), 1).some
    THEN ParseU64(Nth(SplitWhitespace(line), 1).value)
    ELSE Err("no field")

\* the for loop over meminfo.lines(): the first line with this key whose
\* figure parses returns, in bytes
RECURSIVE meminfo_loop(_, _, _, _)
meminfo_loop(lines, i, key, missing) ==
    IF i > Len(lines) THEN Err(missing)
    ELSE IF StartsWith(lines[i], key) /\ meminfo_kb(lines[i]).ok
    THEN Ok(meminfo_kb(lines[i]).value * 1024)
    ELSE meminfo_loop(lines, i + 1, key, missing)

\* #[cfg(target_os = "linux")] get_total_memory
get_total_memory_linux(out) ==
    IF ~out.run THEN Err("Failed to read /proc/meminfo: <io>")
    ELSE meminfo_loop(Lines(out.text), 1, "MemTotal:",
                      "Could not find MemTotal in /proc/meminfo")

\* #[cfg(target_os = "linux")] get_available_memory
get_available_memory_linux(out) ==
    IF ~out.run THEN Err("Failed to read /proc/meminfo: <io>")
    ELSE meminfo_loop(Lines(out.text), 1, "MemAvailable:",
                      "Could not find MemAvailable in /proc/meminfo")

\* the figure of a "Key=n" line of wmic's output, when it parses
wmic_value(line) ==
    IF Nth(Split(line, "="), 1).some
    THEN ParseU64(Trim(Nth(Split(line, "="), 1).value))
    ELSE Err("no value")

\* the for loop over output_str.lines(): the first line with this key whose
\* figure parses returns, multiplied by scale
RECURSIVE wmic_loop(_, _, _, _, _)
wmic_loop(lines, i, key, scale, missing) ==
    IF i > Len(lines) THEN Err(missing)
    ELSE IF StartsWith(lines[i], key) /\ wmic_value(lines[i]).ok
    THEN Ok(wmic_value(lines[i]).value * scale)
    ELSE wmic_loop(lines, i + 1, key, scale, missing)

\* #[cfg(target_os = "windows")] get_total_memory
get_total_memory_windows(out) ==
    IF ~out.run THEN Err("Failed to get memory info: <io>")
    ELSE wmic_loop(Lines(out.text), 1, "TotalPhysicalMemory=", 1,
                   "Could not parse memory information")

\* #[cfg(target_os = "windows")] get_available_memory
get_available_memory_windows(out) ==
    IF ~out.run THEN Err("Failed to get available memory: <io>")
    ELSE wmic_loop(Lines(out.text), 1, "FreePhysicalMemory=", 1024,
                   "Could not parse available memory information")

\* #[cfg(target_os = "macos")] get_total_memory
get_total_memory_macos(out) ==
    IF ~out.run THEN Err("Failed to get memory info: <io>")
    ELSE IF ParseU64(Trim(out.text)).ok THEN ParseU64(Trim(out.text))
    ELSE Err("Failed to parse memory size: " \o ParseU64(Trim(out.text)).err)

\* the page size a vm_stat line announces, when it does
vm_stat_page_size(line) ==
    IF Contains(line, "page size of") /\ Nth(Split(line, "page size of "), 1).some
    THEN ParseU64(Split(Nth(Split(line, "page size of "), 1).value, " bytes")[1])
    ELSE Err("no page size")

\* the first for loop of get_available_memory: page_size after lines i..
RECURSIVE page_size_loop(_, _, _)
page_size_loop(lines, i, page_size) ==
    IF i > Len(lines) THEN page_size
    ELSE IF vm_stat_page_size(lines[i]).ok THEN vm_stat_page_size(lines[i]).value
    ELSE page_size_loop(lines, i + 1, page_size)

\* the page count of a "Pages free:   n." line, when it parses
vm_stat_free_pages(line) ==
    IF StartsWith(line, "Pages free:") /\ Nth(Split(line, ":"), 1).some
    THEN ParseU64(Remove(Trim(Nth(Split(line, ":"), 1).value), "."))
    ELSE Err("no page count")

\* the second for loop of get_available_memory: free_pages after lines i..
RECURSIVE free_pages_loop(_, _, _)
free_pages_loop(lines, i, free_pages) ==
    IF i > Len(lines) THEN free_pages
    ELSE free_pages_loop(lines, i + 1,
             IF vm_stat_free_pages(lines[i]).ok
             THEN free_pages + vm_stat_free_pages(lines[i]).value
             ELSE free_pages)

\* #[cfg(target_os = "macos")] get_available_memory
get_available_memory_macos(out) ==
    IF ~out.run THEN Err("Failed to get memory info: <io>")
    ELSE Ok(free_pages_loop(Lines(out.text), 1, 0)
               * page_size_loop(Lines(out.text), 1, 4096))

\* #[cfg(target_os = "windows")] get_available_storage_for_path
get_available_storage_for_path_windows(out) ==
    IF ~out.run THEN Err("Failed to get storage info: <io>")
    ELSE IF ParseU64(Trim(out.text)).ok THEN ParseU64(Trim(out.text))
    ELSE Err("Failed to parse storage size: " \o ParseU64(Trim(out.text)).err)

\* the fourth field of df's second line
df_available(lines) ==
    IF Len(lines) >= 2 /\ Len(SplitWhitespace(lines[2])) >= 4
    THEN IF ParseU64(SplitWhitespace(lines[2])[4]).ok
         THEN ParseU64(SplitWhitespace(lines[2])[4])
         ELSE Err("Failed to parse available storage: "
                      \o ParseU64(SplitWhitespace(lines[2])[4]).err)
    ELSE Err("Could not parse df output")

\* #[cfg(any(target_os = "macos", target_os = "linux"))]
\* get_available_storage_for_path
get_available_storage_for_path_unix(out) ==
    IF ~out.run THEN Err("Failed to get storage info: <io>")
    ELSE df_available(Lines(out.text))

\* the three queries of the build for platform, on what the operating
\* system gave back to each
total_memory_query(platform, out) ==
    IF platform = "windows" THEN get_total_memory_windows(out)
    ELSE IF platform = "macos" THEN get_total_memory_macos(out)
    ELSE get_total_memory_linux(out)

available_memory_query(platform, out) ==
    IF platform = "windows" THEN get_available_memory_windows(out)
    ELSE IF platform = "macos" THEN get_available_memory_macos(out)
    ELSE get_available_memory_linux(out)

\* get_available_storage: home_set tells whether the home directory
\* variable resolves
available_storage_query(platform, home_set, out) ==
    IF ~home_set THEN Err("Could not determine home directory")
    ELSE IF platform = "windows" THEN get_available_storage_for_path_windows(out)
    ELSE get_available_storage_for_path_unix(out)

\* get_system_resources of the build for given.platform on what the
\* operating system gave back
probe(given) ==
    system_resources_from(total_memory_query(given.platform, given.total),
                          available_memory_query(given.platform, given.available),
                          available_storage_query(given.platform, given.home_set, given.storage),
                          cpu_cores_of(given.parallelism))

-----------------------------------------------------------------------------
(* Global shortcut commands: lib.rs.  The shortcut plugin is kept as the   *)
(* set of key combinations it holds registered for this application; an    *)
(* operation of the plugin that fails leaves that set as it was.           *)

\* Shortcut::from_str on the texts the commands are handed: the key
\* combination a text spells ("Control" and "Ctrl" name one modifier)
from_str(shortcut) ==
    IF shortcut \in {"Ctrl+K", "Control+K"} THEN Ok("control+KeyK")
    ELSE IF shortcut = "Alt+M" THEN Ok("alt+KeyM")
    ELSE Err("Couldn't recognize \"" \o shortcut \o "\" as a valid key")

\* a state of the tracked list and the plugin, with the command's Result
ShortcutOutcome(tracked, held, result) ==
    [tracked |-> tracked, held |-> held, result |-> result]

\* unregister_all_shortcuts: all_fails tells that the plugin's
\* unregister_all returns an error
unregister_all_shortcuts(tracked, held, all_fails) ==
    ShortcutOutcome(<<>>, IF all_fails THEN held ELSE {}, Ok("()"))

\* the error of the plugin's register, "" when it succeeds: a combination
\* held already cannot be registered, and fault is any other failure
register_error(parsed_shortcut, held, taken, fault) ==
    IF parsed_shortcut \in held \cup taken THEN "HotKey already registered"
    ELSE fault

\* the map_err of register_global_shortcut
register_message(shortcut, e) ==
    IF Contains(e, "already registered")
    THEN "Shortcut '" \o shortcut \o "' is already in use by another application"
    ELSE IF Contains(e, "permission")
    THEN "Permission denied to register global shortcut '" \o shortcut
             \o "'. Please check system accessibility settings."
    ELSE "Failed to register global shortcut '" \o shortcut \o "': " \o e

\* register_global_shortcut once the existing shortcuts were unregistered
register_after(cleared, shortcut, taken, fault) ==
    IF register_error(from_str(shortcut).value, cleared.held, taken, fault) # ""
    THEN ShortcutOutcome(cleared.tracked, cleared.held,
             Err(register_message(shortcut,
                     register_error(from_str(shortcut).value, cleared.held, taken, fault))))
    ELSE ShortcutOutcome(<<shortcut>>, cleared.held \cup {from_str(shortcut).value}, Ok("()"))

register_global_shortcut(shortcut, tracked, held, taken, all_fails, fault) ==
    IF Trim(shortcut) = "" THEN unregister_all_shortcuts(tracked, held, all_fails)
    ELSE IF ~from_str(shortcut).ok
    THEN ShortcutOutcome(tracked, held,
             Err("Invalid shortcut format '" \o shortcut \o "': " \o from_str(shortcut).err))
    ELSE register_after(unregister_all_shortcuts(tracked, held, all_fails),
                        shortcut, taken, fault)

\* shortcuts.retain(|s| s != &shortcut)
RECURSIVE retain_other(_, _)
retain_other(shortcuts, shortcut) ==
    IF shortcuts = <<>> THEN <<>>
    ELSE IF Head(shortcuts) # shortcut
    THEN <<Head(shortcuts)>> \o retain_other(Tail(shortcuts), shortcut)
    ELSE retain_other(Tail(shortcuts), shortcut)

\* the error of the plugin's unregister, "" when it succeeds
unregister_error(parsed_shortcut, held, fault) ==
    IF parsed_shortcut \notin held THEN "HotKey is not registered" ELSE fault

unregister_global_shortcut(shortcut, tracked, held, fault) ==
    IF Trim(shortcut) = "" THEN ShortcutOutcome(tracked, held, Ok("()"))
    ELSE IF ~from_str(shortcut).ok
    THEN ShortcutOutcome(tracked, held,
             Err("Invalid shortcut format '" \o shortcut \o "': " \o from_str(shortcut).err))
    ELSE IF unregister_error(from_str(shortcut).value, held, fault) # ""
    THEN ShortcutOutcome(tracked, held,
             Err("Failed to unregister shortcut '" \o shortcut \o "': "
                     \o unregister_error(from_str(shortcut).value, held, fault)))
    ELSE ShortcutOutcome(retain_other(tracked, shortcut),
                       held \ {from_str(shortcut).value}, Ok("()"))

-----------------------------------------------------------------------------
(* The search cache: search.rs.  SEARCH_CACHE maps a key text to the       *)
(* stored output and the SystemTime of storing; an entry also records, for *)
(* the properties only, what it was stored for and when.                   *)

CACHE_DURATION_SECS == 300

\* Display of a u8
RECURSIVE u8_to_string(_)
u8_to_string(n) ==
    IF n < 10 THEN SubSeq("0123456789", n + 1, n + 1)
    ELSE u8_to_string(n \div 10) \o SubSeq("0123456789", (n % 10) + 1, (n % 10) + 1)

\* input.engine.unwrap_or_else(|| "duckduckgo".to_string())
engine_of(input) == IF input.engine.some THEN input.engine.value ELSE "duckduckgo"

\* input.top_k.unwrap_or(5)
top_k_of(input) == IF input.top_k.some THEN input.top_k.value ELSE 5

\* format!("{}::{}::{}", engine, top_k, input.query.to_lowercase().trim())
cache_key(input) ==
    engine_of(input) \o "::" \o u8_to_string(top_k_of(input)) \o "::"
        \o Trim(to_lowercase(input.query))

\* timestamp.elapsed().unwrap_or_default().as_secs(): a timestamp ahead of
\* the clock makes elapsed() an error, which counts as no time at all
elapsed_secs(timestamp, now) == IF now >= timestamp THEN now - timestamp ELSE 0

\* the test of both the lookup and the retain
is_fresh(timestamp, now) == elapsed_secs(timestamp, now) < CACHE_DURATION_SECS

\* the lookup: the entry returned without searching, None to search
cache_lookup(cache, key, now) ==
    IF key \in DOMAIN cache /\ is_fresh(cache[key].timestamp, now) THEN Some(cache[key])
    ELSE None

\* cache.retain(..) followed by cache.insert(cache_key, (output, now))
cache_store(cache, key, entry, now) ==
    [k \in {c \in DOMAIN cache : is_fresh(cache[c].timestamp, now)} \cup {key} |->
        IF k = key THEN entry ELSE cache[k]]

\* the SearchOutput of a search that succeeded at the given moment
search_output(input, moment) ==
    [results |-> <<engine_of(input), input.query, top_k_of(input), moment>>]

-----------------------------------------------------------------------------
(* Each specification below exercises one part of the program and leaves   *)
(* the variables of the other parts at these resting values.               *)

ClassifyIdle ==
    /\ cDirs = <<>>
    /\ cFile = ""
    /\ cPlatform = "linux"
    /\ cSource = "Other"
    /\ cMeta = [ok |-> FALSE, len |-> 0]
    /\ cPc = "off"
    /\ cOut = None

DiscoverIdle ==
    /\ target_os = "linux"
    /\ home = TRUE
    /\ dirs = <<>>
    /\ nextId = 1
    /\ dPc = "off"
    /\ dResult = None

CompatIdle ==
    /\ host = [total_memory |-> Ok(0), available_memory |-> Ok(0),
               available_storage |-> Ok(0), parallelism |-> None]
    /\ vSize = 0
    /\ vName = ""
    /\ vPc = "off"
    /\ vOut = Err("")

ProbeIdle ==
    /\ os = [platform |-> "linux"]
    /\ pPc = "off"
    /\ pOut = Err("")

CallsIdle ==
    /\ calls = <<>>
    /\ epoch = 0
    /\ history = <<>>

ScanIdle ==
    /\ sSource = "Other"
    /\ sPc = "off"
    /\ sOut = Err("")

ShortcutsIdle ==
    /\ REGISTERED_SHORTCUTS = <<>>
    /\ registered = {}
    /\ others = {}
    /\ kResult = Ok("")
    /\ kCalls = 0

CacheIdle ==
    /\ SEARCH_CACHE = <<>>
    /\ clock = 0
    /\ elapsed = 0
    /\ setBack = FALSE
    /\ requests = <<>>

-----------------------------------------------------------------------------
(* Classifier harness: try_parse_model_file applied to one path            *)

\* Longest directory chain of a path handed to the classifier.
MaxDirs == 3

DirNames == {"h", "manifests", "llama3", "8b"}
FileNames == {"model", "foo.gguf", "foo.bin", "w.safetensors",
              "model.txt", "mymodel", ".bin", "a.b.gguf"}
Platforms == {"linux", "macos", "windows"}
Metas == {[ok |-> TRUE, len |-> 5], [ok |-> FALSE, len |-> 0]}

\* the filesystem root of the build target
RootPath(platform) == IF platform = "windows" THEN "C:\\" ELSE "/"

RECURSIVE JoinAll(_, _, _)
JoinAll(base, comps, platform) ==
    IF comps = <<>> THEN base
    ELSE JoinAll(PathJoin(base, Head(comps), platform), Tail(comps), platform)

cPath == JoinAll(RootPath(cPlatform), cDirs \o <<cFile>>, cPlatform)

RECURSIVE SeqsUpTo(_, _)
SeqsUpTo(S, n) ==
    IF n = 0 THEN {<<>>}
    ELSE LET shorter == SeqsUpTo(S, n - 1)
         IN shorter \cup {Append(q, x) : q \in {r \in shorter : Len(r) = n - 1}, x \in S}

ClassifyInit ==
    /\ cDirs \in SeqsUpTo(DirNames, MaxDirs)
    /\ cFile \in FileNames
    /\ cPlatform \in Platforms
    /\ cSource \in ModelSource
    /\ cMeta \in Metas
    /\ cPc = "ready"
    /\ cOut = None
    /\ DiscoverIdle
    /\ CompatIdle
    /\ ProbeIdle
    /\ CallsIdle
    /\ ScanIdle
    /\ ShortcutsIdle
    /\ CacheIdle

Classify ==
    /\ cPc = "ready"
    /\ cOut' = try_parse_model_file(cPath, cSource, cMeta, cPlatform)
    /\ cPc' = "done"
    /\ UNCHANGED <<cDirs, cFile, cPlatform, cSource, cMeta, discoverVars, compatVars, probeVars, callVars, scanVars, shortcutVars, cacheVars>>

ClassifyNext == Classify

SpecClassify == ClassifyInit /\ [][ClassifyNext]_vars

-----------------------------------------------------------------------------
(* Discovery harness: a filesystem is laid out, then discovery runs on it  *)

\* Most directory entries in the whole filesystem.
MaxFsEntries == 2
\* Deepest nesting of a subdirectory below a provider directory.
MaxDepth == 2

\* the files laid out: name and whether fs::metadata succeeds on it
FsFiles == {<<"model", TRUE>>, <<"a.gguf", TRUE>>, <<"a.gguf", FALSE>>, <<"x.txt", TRUE>>}
FsDirNames == {"manifests", "lib"}
FsOtherNames == {"sock"}

\* the length fs::metadata reports for a file of this name
FsFileLen(name) == IF name = "model" THEN 3 ELSE IF name = "a.gguf" THEN 2 ELSE 1

TotalEntries ==
    Cardinality(UNION {{<<d, i>> : i \in 1..Len(dirs[d].entries)} : d \in DOMAIN dirs})

NamesIn(d) ==
    {dirs[d].entries[i].name : i \in {j \in 1..Len(dirs[d].entries) :
                                        dirs[d].entries[j].kind # "err"}}

\* With no home directory discovery consults no directory, so layouts are
\* explored only when there is one.
CanAddTo(d) ==
    /\ dPc = "setup"
    /\ home
    /\ d \in DOMAIN dirs
    /\ dirs[d].state = "ok"
    /\ TotalEntries < MaxFsEntries

AddEntry(d, entry) ==
    dirs' = [dirs EXCEPT ![d].entries = Append(@, entry)]

DiscoverInit ==
    /\ target_os \in Platforms
    /\ home \in BOOLEAN
    /\ dirs = [r \in Roots |-> [state |-> "missing", depth |-> 0, entries |-> <<>>]]
    /\ nextId = Cardinality(Roots) + 1
    /\ dPc = "setup"
    /\ dResult = None
    /\ ClassifyIdle
    /\ CompatIdle
    /\ ProbeIdle
    /\ CallsIdle
    /\ ScanIdle
    /\ ShortcutsIdle
    /\ CacheIdle

\* a provider directory comes into existence, readable or not
CreateRoot(r, st) ==
    /\ dPc = "setup"
    /\ home
    /\ dirs[r].state = "missing"
    /\ dirs' = [dirs EXCEPT ![r].state = st]
    /\ UNCHANGED <<target_os, home, nextId, dPc, dResult, classifyVars, compatVars, probeVars, callVars, scanVars, shortcutVars, cacheVars>>

\* a regular file, whose metadata can be read or not
AddFile(d, name, meta_ok) ==
    /\ CanAddTo(d)
    /\ name \notin NamesIn(d)
    /\ AddEntry(d, [kind |-> "file", name |-> name, meta_ok |-> meta_ok,
                    len |-> FsFileLen(name)])
    /\ UNCHANGED <<target_os, home, nextId, dPc, dResult, classifyVars, compatVars, probeVars, callVars, scanVars, shortcutVars, cacheVars>>

\* a subdirectory, readable or not
AddSubdir(d, name, st) ==
    /\ CanAddTo(d)
    /\ name \notin NamesIn(d)
    /\ dirs[d].depth < MaxDepth
    /\ dirs' = [i \in DOMAIN dirs \cup {nextId} |->
                  IF i = nextId
                  THEN [state |-> st, depth |-> dirs[d].depth + 1, entries |-> <<>>]
                  ELSE IF i = d
                  THEN [dirs[d] EXCEPT !.entries =
                            Append(@, [kind |-> "dir", name |-> name, id |-> nextId])]
                  ELSE dirs[i]]
    /\ nextId' = nextId + 1
    /\ UNCHANGED <<target_os, home, dPc, dResult, classifyVars, compatVars, probeVars, callVars, scanVars, shortcutVars, cacheVars>>

\* an entry that is neither a regular file nor a directory
AddOther(d, name) ==
    /\ CanAddTo(d)
    /\ name \notin NamesIn(d)
    /\ AddEntry(d, [kind |-> "other", name |-> name])
    /\ UNCHANGED <<target_os, home, nextId, dPc, dResult, classifyVars, compatVars, probeVars, callVars, scanVars, shortcutVars, cacheVars>>

\* an entry whose read fails while the directory is listed
AddFailingEntry(d) ==
    /\ CanAddTo(d)
    /\ AddEntry(d, [kind |-> "err"])
    /\ UNCHANGED <<target_os, home, nextId, dPc, dResult, classifyVars, compatVars, probeVars, callVars, scanVars, shortcutVars, cacheVars>>

\* the discover_models command
Discover ==
    /\ dPc = "setup"
    /\ dResult' = discover_local_models
    /\ dPc' = "done"
    /\ UNCHANGED <<target_os, home, dirs, nextId, classifyVars, compatVars, probeVars, callVars, scanVars, shortcutVars, cacheVars>>

DiscoverNext ==
    \/ \E r \in Roots, st \in {"ok", "unreadable"} : CreateRoot(r, st)
    \/ \E d \in 1..(nextId - 1), f \in FsFiles : AddFile(d, f[1], f[2])
    \/ \E d \in 1..(nextId - 1), name \in FsDirNames, st \in {"ok", "unreadable"} :
          AddSubdir(d, name, st)
    \/ \E d \in 1..(nextId - 1), name \in FsOtherNames : AddOther(d, name)
    \/ \E d \in 1..(nextId - 1) : AddFailingEntry(d)
    \/ Discover

SpecDiscover == DiscoverInit /\ [][DiscoverNext]_vars

-----------------------------------------------------------------------------
(* Compatibility harness: validate_model_compatibility on one host         *)

\* Available memory is drawn in steps of 2 GB up to this many steps.
MaxMemSteps == 7
\* Available storage is drawn in whole GB up to this many.
MaxStorageGb == 10

ModelSizes == {0, 4, UnitsPerGb, 4 * UnitsPerGb, 10 * UnitsPerGb}
ModelNames == {"tiny", "model-7b-instruct", "llava-7b", "Llama-70B", "x-13-b",
               "Vision", "deepseek-coder", "llava-13b", "Coder-70-B"}

TotalMemoryAnswers ==
    {Err("Could not find MemTotal in /proc/meminfo"), Ok(16 * UnitsPerGb)}
AvailableMemoryAnswers ==
    {Err("Could not find MemAvailable in /proc/meminfo")}
        \cup {Ok(k * 2 * UnitsPerGb) : k \in 0..MaxMemSteps}
AvailableStorageAnswers ==
    {Err("Could not parse df output")} \cup {Ok(g * UnitsPerGb) : g \in 0..MaxStorageGb}
ParallelismAnswers == {None, Some(2), Some(4), Some(8)}

CompatInit ==
    /\ host \in [total_memory : TotalMemoryAnswers,
                  available_memory : AvailableMemoryAnswers,
                  available_storage : AvailableStorageAnswers,
                  parallelism : ParallelismAnswers]
    /\ vSize \in ModelSizes
    /\ vName \in ModelNames
    /\ vPc = "ready"
    /\ vOut = Err("")
    /\ ClassifyIdle
    /\ DiscoverIdle
    /\ ProbeIdle
    /\ CallsIdle
    /\ ScanIdle
    /\ ShortcutsIdle
    /\ CacheIdle

\* the validate_model_system_compatibility command
Validate ==
    /\ vPc = "ready"
    /\ vOut' = validate_model_compatibility(vSize, vName)
    /\ vPc' = "done"
    /\ UNCHANGED <<host, vSize, vName, classifyVars, discoverVars, probeVars, callVars, scanVars, shortcutVars, cacheVars>>

CompatNext == Validate

SpecCompat == CompatInit /\ [][CompatNext]_vars

-----------------------------------------------------------------------------
(* Probe harness: get_system_resources on one set of OS outputs            *)
(*                                                                         *)
(* An output is [run, text, figure]: run and text are what the query is    *)
(* handed, figure is the number of bytes the output reports, None when it  *)
(* reports none.                                                           *)

NotRun == [run |-> FALSE, text |-> "", figure |-> None]
Output(text, figure) == [run |-> TRUE, text |-> text, figure |-> figure]

MemInfo == "MemTotal:       80 kB\nMemFree:         8 kB\nMemAvailable:   40 kB\n"
VmStat == "Mach Virtual Memory Statistics: (page size of 16384 bytes)\n"
              \o "Pages free:          5.\nPages active:        9.\n"
DfOutput == "Filesystem 1B-blocks Used Available Use% Mounted on\n"
                \o "/dev/sda1 100 60 40 60% /\n"

\* what /proc/meminfo, sysctl -n hw.memsize and wmic computersystem can give
TotalOutputs(platform) ==
    IF platform = "linux"
    THEN {NotRun, Output(MemInfo, Some(80 * 1024)),
          Output("MemFree:         8 kB\n", None), Output("MemTotal: kB\n", None)}
    ELSE IF platform = "macos"
    THEN {NotRun, Output("80\n", Some(80)), Output("", None)}
    ELSE {NotRun, Output("\r\r\nTotalPhysicalMemory=80\r\r\n\r\r\n", Some(80)),
          Output("", None), Output("TotalPhysicalMemory=\r\r\n", None)}

\* what /proc/meminfo, vm_stat and wmic OS can give
AvailableOutputs(platform) ==
    IF platform = "linux"
    THEN {NotRun, Output(MemInfo, Some(40 * 1024)),
          Output("MemTotal:       80 kB\nMemFree:         8 kB\n", None),
          Output("MemAvailable: ? kB\n", None)}
    ELSE IF platform = "macos"
    THEN {NotRun, Output(VmStat, Some(5 * 16384)), Output("", None),
          Output("Mach Virtual Memory Statistics: (page size of 16384 bytes)\n"
                     \o "Pages free: n/a\n", None)}
    ELSE {NotRun, Output("\r\r\nFreePhysicalMemory=40\r\r\n\r\r\n", Some(40 * 1024)),
          Output("", None), Output("FreePhysicalMemory=\r\r\n", None)}

\* what df -B1 and the powershell free-space query can give
StorageOutputs(platform) ==
    IF platform = "windows"
    THEN {NotRun, Output("40\r\n", Some(40)), Output("", None)}
    ELSE {NotRun, Output(DfOutput, Some(40)), Output("", None),
          Output("Filesystem 1B-blocks Used Available Use% Mounted on\n", None)}

OsOutputs ==
    UNION {[platform : {p}, total : TotalOutputs(p), available : AvailableOutputs(p),
            storage : StorageOutputs(p), home_set : BOOLEAN,
            parallelism : {None, Some(2), Some(8)}] : p \in Platforms}

ProbeInit ==
    /\ os \in OsOutputs
    /\ pPc = "ready"
    /\ pOut = Err("")
    /\ ClassifyIdle
    /\ DiscoverIdle
    /\ CompatIdle
    /\ CallsIdle
    /\ ScanIdle
    /\ ShortcutsIdle
    /\ CacheIdle

\* the get_system_info command
Probe ==
    /\ pPc = "ready"
    /\ pOut' = probe(os)
    /\ pPc' = "done"
    /\ UNCHANGED <<os, classifyVars, discoverVars, compatVars, callVars, scanVars, shortcutVars, cacheVars>>

ProbeNext == Probe

SpecProbe == ProbeInit /\ [][ProbeNext]_vars

-----------------------------------------------------------------------------
(* Concurrent commands: discover_models, get_system_info and               *)
(* validate_model_system_compatibility calls run side by side while the    *)
(* host and the filesystem change.  A call advances from one query of the  *)
(* operating system to the next; what it has obtained so far is in its own *)
(* local variables.                                                        *)

\* Calls that can be in progress together.
MaxCalls == 2

CallIds == 1..MaxCalls

\* the host at one instant: total and available memory and available
\* storage in GB; the storage query fails when there is no storage figure
HostAt(total_gb, available_gb, storage_gb) ==
    [total_memory      |-> Ok(total_gb * UnitsPerGb),
     available_memory  |-> Ok(available_gb * UnitsPerGb),
     available_storage |-> IF storage_gb < 0 THEN Err("Could not parse df output")
                           ELSE Ok(storage_gb * UnitsPerGb),
     parallelism       |-> Some(4)]

\* the states the host goes through while calls run side by side
HostStates == {HostAt(16, 12, 6), HostAt(8, 4, -1)}

ValidateArgs == {<<4 * UnitsPerGb, "model-7b-instruct">>}

NotAsked == Err("not asked")

\* a call that has not been made; reads lists the epochs of its queries,
\* undisturbed tells that nothing has changed since its first query
NoCall ==
    [kind |-> "none", pc |-> "idle", size |-> 0, name |-> "",
     total |-> NotAsked, available |-> NotAsked,
     acc |-> [models |-> <<>>, total_size_bytes |-> 0, errors |-> <<>>],
     result |-> NotAsked, reads |-> <<>>, undisturbed |-> TRUE]

\* no call has been made and the host is in one of host_states
CallsStart(host_states) ==
    /\ calls = [c \in CallIds |-> NoCall]
    /\ epoch = 0
    /\ host \in host_states
    /\ history = <<host>>
    /\ vSize = 0
    /\ vName = ""
    /\ vPc = "off"
    /\ vOut = Err("")
    /\ target_os = "linux"
    /\ home = TRUE
    /\ dirs = [r \in Roots |->
                 IF r = OllamaRoot
                 THEN [state |-> "ok", depth |-> 0,
                       entries |-> <<[kind |-> "file", name |-> "model",
                                      meta_ok |-> TRUE, len |-> FsFileLen("model")]>>]
                 ELSE IF r = LmStudioRootA
                 THEN [state |-> "ok", depth |-> 0, entries |-> <<>>]
                 ELSE [state |-> "missing", depth |-> 0, entries |-> <<>>]]
    /\ nextId = Cardinality(Roots) + 1
    /\ dPc = "off"
    /\ dResult = None
    /\ ClassifyIdle
    /\ ProbeIdle
    /\ ScanIdle
    /\ ShortcutsIdle
    /\ CacheIdle

CallsInit == CallsStart(HostStates)

CallsUnchanged == UNCHANGED <<classifyVars, probeVars, scanVars, shortcutVars, cacheVars, vSize, vName, vPc, vOut,
                              target_os, home, nextId, dPc, dResult>>

\* calls are numbered in the order they are invoked
NextToStart(c) ==
    /\ calls[c].pc = "idle"
    /\ \A d \in 1..(c - 1) : calls[d].pc # "idle"

\* the discover_models command is invoked
StartDiscover(c) ==
    /\ NextToStart(c)
    /\ calls' = [calls EXCEPT ![c].kind = "discover", ![c].pc = "ollama"]
    /\ UNCHANGED <<host, dirs, epoch, history>>
    /\ CallsUnchanged

\* the get_system_info command is invoked
StartProbe(c) ==
    /\ NextToStart(c)
    /\ calls' = [calls EXCEPT ![c].kind = "probe", ![c].pc = "total"]
    /\ UNCHANGED <<host, dirs, epoch, history>>
    /\ CallsUnchanged

\* the validate_model_system_compatibility command is invoked
StartValidate(c, model_size_bytes, model_name) ==
    /\ NextToStart(c)
    /\ calls' = [calls EXCEPT ![c].kind = "validate", ![c].pc = "total",
                              ![c].size = model_size_bytes, ![c].name = model_name]
    /\ UNCHANGED <<host, dirs, epoch, history>>
    /\ CallsUnchanged

\* match discover_ollama_models().await
DiscoverOllama(c) ==
    /\ calls[c].pc = "ollama"
    /\ calls' = [calls EXCEPT
                   ![c].acc = match_provider(@, discover_ollama_models,
                                             "Ollama model discovery error: "),
                   ![c].reads = Append(@, epoch),
                   ![c].pc = "lmstudio"]
    /\ UNCHANGED <<host, dirs, epoch, history>>
    /\ CallsUnchanged

\* match discover_lmstudio_models().await, and the result is returned
DiscoverLmStudio(c) ==
    /\ calls[c].pc = "lmstudio"
    /\ calls' = [calls EXCEPT
                   ![c].result = discovery_result(
                       match_provider(calls[c].acc, discover_lmstudio_models,
                                      "LMStudio model discovery error: ")),
                   ![c].reads = Append(@, epoch),
                   ![c].pc = "done"]
    /\ UNCHANGED <<host, dirs, epoch, history>>
    /\ CallsUnchanged

\* get_total_memory().await?
QueryTotal(c) ==
    /\ calls[c].pc = "total"
    /\ calls' = [calls EXCEPT
                   ![c].total = get_total_memory,
                   ![c].reads = Append(@, epoch),
                   ![c].result = IF get_total_memory.ok THEN @ ELSE get_total_memory,
                   ![c].pc = IF get_total_memory.ok THEN "available" ELSE "done"]
    /\ UNCHANGED <<host, dirs, epoch, history>>
    /\ CallsUnchanged

\* get_available_memory().await?
QueryAvailable(c) ==
    /\ calls[c].pc = "available"
    /\ calls' = [calls EXCEPT
                   ![c].available = get_available_memory,
                   ![c].reads = Append(@, epoch),
                   ![c].result = IF get_available_memory.ok THEN @ ELSE get_available_memory,
                   ![c].pc = IF get_available_memory.ok THEN "storage" ELSE "done"]
    /\ UNCHANGED <<host, dirs, epoch, history>>
    /\ CallsUnchanged

\* what the call returns once its probe has answered
call_result(kind, system_resources, model_size_bytes, model_name) ==
    IF ~system_resources.ok \/ kind = "probe" THEN system_resources
    ELSE Ok(compatibility_on(system_resources.value, model_size_bytes, model_name))

\* get_available_storage().await?, get_cpu_cores(), and the rest of the call
QueryStorage(c) ==
    /\ calls[c].pc = "storage"
    /\ calls' = [calls EXCEPT
                   ![c].result = call_result(calls[c].kind,
                       system_resources_from(calls[c].total, calls[c].available,
                                             get_available_storage, get_cpu_cores),
                       calls[c].size, calls[c].name),
                   ![c].reads = Append(@, epoch),
                   ![c].pc = "done"]
    /\ UNCHANGED <<host, dirs, epoch, history>>
    /\ CallsUnchanged

\* the calls after a change of what the calls of these kinds read: those
\* that have made a query are no longer undisturbed
disturbed(cs, kinds) ==
    [c \in DOMAIN cs |-> IF cs[c].reads = <<>> \/ cs[c].kind \notin kinds THEN cs[c]
                         ELSE [cs[c] EXCEPT !.undisturbed = FALSE]]

\* memory or storage use on the host changes
HostChanges(h) ==
    /\ epoch = 0
    /\ h # host
    /\ host' = h
    /\ calls' = disturbed(calls, {"probe", "validate"})
    /\ UNCHANGED <<dirs, epoch, history>>
    /\ CallsUnchanged

\* a model file is put into the first LM Studio directory
FileAppears ==
    /\ "a.gguf" \notin NamesIn(LmStudioRootA)
    /\ dirs' = [dirs EXCEPT ![LmStudioRootA].entries =
                   Append(@, [kind |-> "file", name |-> "a.gguf", meta_ok |-> TRUE,
                              len |-> FsFileLen("a.gguf")])]
    /\ calls' = disturbed(calls, {"discover"})
    /\ UNCHANGED <<host, epoch, history>>
    /\ CallsUnchanged

CallsNext ==
    \/ \E c \in CallIds : StartDiscover(c)
    \/ \E c \in CallIds : StartProbe(c)
    \/ \E c \in CallIds, a \in ValidateArgs : StartValidate(c, a[1], a[2])
    \/ \E c \in CallIds : DiscoverOllama(c)
    \/ \E c \in CallIds : DiscoverLmStudio(c)
    \/ \E c \in CallIds : QueryTotal(c)
    \/ \E c \in CallIds : QueryAvailable(c)
    \/ \E c \in CallIds : QueryStorage(c)
    \/ \E h \in HostStates : HostChanges(h)
    \/ FileAppears

SpecCalls == CallsInit /\ [][CallsNext]_vars

-----------------------------------------------------------------------------
(* One probe on a changing host: a get_system_info call whose queries are  *)
(* made while the host's memory and storage use changes; every state the   *)
(* host goes through is recorded.                                          *)

\* Changes of the host during a run.
MaxChanges == 2

\* the call that is followed
Prober == 1

\* the states the host goes through during the probe: available memory is
\* never above total memory
SnapshotHostStates ==
    {HostAt(16, 12, 6), HostAt(16, 4, 2), HostAt(8, 4, 6), HostAt(8, 4, -1)}

SnapshotInit == CallsStart(SnapshotHostStates)

\* memory or storage use on the host changes, and the change is recorded
HostChangesRecorded(h) ==
    /\ epoch < MaxChanges
    /\ h # host
    /\ host' = h
    /\ epoch' = epoch + 1
    /\ history' = Append(history, h)
    /\ calls' = disturbed(calls, {"probe", "validate"})
    /\ UNCHANGED dirs
    /\ CallsUnchanged

SnapshotNext ==
    \/ StartProbe(Prober)
    \/ QueryTotal(Prober)
    \/ QueryAvailable(Prober)
    \/ QueryStorage(Prober)
    \/ \E h \in SnapshotHostStates : HostChangesRecorded(h)

SpecSnapshot == SnapshotInit /\ [][SnapshotNext]_vars

-----------------------------------------------------------------------------
(* Scan harness: a directory tree is laid out below one directory, then    *)
(* scan_directory_for_models is called on that directory                   *)

\* Most directory entries in the whole tree.
MaxScanEntries == 4

\* the directory the top-level call is handed, and its path
ScanRoot == OllamaRoot
ScanDir == get_ollama_models_directory.value

ScanFiles == {"a.gguf", "model", "x.txt"}
ScanDirNames == {"lib", "sub"}

ScanInit ==
    /\ sSource \in ModelSource
    /\ sPc = "setup"
    /\ sOut = Err("")
    /\ target_os = "linux"
    /\ home = TRUE
    /\ dirs = [r \in Roots |-> [state |-> IF r = ScanRoot THEN "ok" ELSE "missing",
                                depth |-> 0, entries |-> <<>>]]
    /\ nextId = Cardinality(Roots) + 1
    /\ dPc = "off"
    /\ dResult = None
    /\ ClassifyIdle
    /\ CompatIdle
    /\ ProbeIdle
    /\ CallsIdle
    /\ ShortcutsIdle
    /\ CacheIdle

\* directory d of the tree can be given one more entry called name
CanPutInto(d, name) ==
    /\ sPc = "setup"
    /\ d \in DOMAIN dirs
    /\ dirs[d].state = "ok"
    /\ TotalEntries < MaxScanEntries
    /\ name \notin NamesIn(d)

ScanUnchanged == UNCHANGED <<sSource, sPc, sOut, target_os, home, dPc, dResult, classifyVars, compatVars, probeVars, callVars, shortcutVars, cacheVars>>

\* a regular file
PutFile(d, name) ==
    /\ CanPutInto(d, name)
    /\ AddEntry(d, [kind |-> "file", name |-> name, meta_ok |-> TRUE,
                    len |-> FsFileLen(name)])
    /\ UNCHANGED nextId
    /\ ScanUnchanged

\* a subdirectory, readable or not
PutSubdir(d, name, st) ==
    /\ CanPutInto(d, name)
    /\ dirs' = [i \in DOMAIN dirs \cup {nextId} |->
                  IF i = nextId
                  THEN [state |-> st, depth |-> dirs[d].depth + 1, entries |-> <<>>]
                  ELSE IF i = d
                  THEN [dirs[d] EXCEPT !.entries =
                            Append(@, [kind |-> "dir", name |-> name, id |-> nextId])]
                  ELSE dirs[i]]
    /\ nextId' = nextId + 1
    /\ ScanUnchanged

\* an entry whose read fails while the directory is listed
PutFailingEntry(d) ==
    /\ sPc = "setup"
    /\ d \in DOMAIN dirs
    /\ dirs[d].state = "ok"
    /\ TotalEntries < MaxScanEntries
    /\ AddEntry(d, [kind |-> "err"])
    /\ UNCHANGED nextId
    /\ ScanUnchanged

\* scan_directory_for_models(dir_path, source) on the tree
Scan ==
    /\ sPc = "setup"
    /\ sOut' = scan_directory_for_models(ScanDir, ScanRoot, sSource)
    /\ sPc' = "done"
    /\ UNCHANGED <<sSource, discoverVars, classifyVars, compatVars, probeVars, callVars, shortcutVars, cacheVars>>

ScanNext ==
    \/ \E d \in 1..(nextId - 1), name \in ScanFiles : PutFile(d, name)
    \/ \E d \in 1..(nextId - 1), name \in ScanDirNames, st \in {"ok", "unreadable"} :
          PutSubdir(d, name, st)
    \/ \E d \in 1..(nextId - 1) : PutFailingEntry(d)
    \/ Scan

SpecScan == ScanInit /\ [][ScanNext]_vars

-----------------------------------------------------------------------------
(* Links harness: discovery on provider directories that hold symbolic     *)
(* links.  Path::is_dir and fs::read_dir follow links, so a link to a      *)
(* directory is an entry of kind "dir" whose id is that of an existing     *)
(* directory, and a provider directory that is itself a link lists the     *)
(* entries of the directory it points to.  No link points to a directory   *)
(* it lies in or below.                                                    *)

\* Most links put into the provider directories.
MaxLinks == 2

LinkNames == {"link", "alt"}

\* the subdirectory "lib" of the Ollama directory
LibDir == Cardinality(Roots) + 1

ModelFile(name) ==
    [kind |-> "file", name |-> name, meta_ok |-> TRUE, len |-> FsFileLen(name)]

LinksInit ==
    /\ target_os \in Platforms
    /\ home = TRUE
    /\ dirs = [d \in Roots \cup {LibDir} |->
                 IF d = OllamaRoot
                 THEN [state |-> "ok", depth |-> 0,
                       entries |-> <<ModelFile("model"),
                                     [kind |-> "dir", name |-> "lib", id |-> LibDir]>>]
                 ELSE IF d = LibDir
                 THEN [state |-> "ok", depth |-> 1, entries |-> <<ModelFile("a.gguf")>>]
                 ELSE IF d = LmStudioRootA
                 THEN [state |-> "ok", depth |-> 0, entries |-> <<ModelFile("a.gguf")>>]
                 ELSE [state |-> "missing", depth |-> 0, entries |-> <<>>]]
    /\ nextId = LibDir + 1
    /\ dPc = "setup"
    /\ dResult = None
    /\ ClassifyIdle
    /\ CompatIdle
    /\ ProbeIdle
    /\ CallsIdle
    /\ ScanIdle
    /\ ShortcutsIdle
    /\ CacheIdle

\* the directories listed in directory d, links included
SubdirsOf(d) ==
    {dirs[d].entries[i].id : i \in {j \in 1..Len(dirs[d].entries) :
                                       dirs[d].entries[j].kind = "dir"}}

\* directory t is d or is reached from d through subdirectories and links
RECURSIVE Reaches(_, _)
Reaches(d, t) == d = t \/ \E c \in SubdirsOf(d) : Reaches(c, t)

\* the links laid out so far: directory entries beyond the one of LibDir
LinkCount ==
    Cardinality(UNION {{<<d, i>> : i \in {j \in 1..Len(dirs[d].entries) :
                                             dirs[d].entries[j].kind = "dir"}} :
                       d \in DOMAIN dirs}) - 1

\* a symbolic link called name is put into directory d, pointing to
\* directory t
AddLink(d, name, t) ==
    /\ dPc = "setup"
    /\ dirs[LmStudioRootB].state = "missing"
    /\ dirs[d].state = "ok"
    /\ dirs[t].state = "ok"
    /\ LinkCount < MaxLinks
    /\ name \notin NamesIn(d)
    /\ ~Reaches(t, d)
    /\ AddEntry(d, [kind |-> "dir", name |-> name, id |-> t])
    /\ UNCHANGED <<target_os, home, nextId, dPc, dResult, classifyVars, compatVars, probeVars, callVars, scanVars, shortcutVars, cacheVars>>

\* the second LM Studio directory comes into existence as a symbolic link
\* to directory t
LinkRoot(t) ==
    /\ dPc = "setup"
    /\ dirs[LmStudioRootB].state = "missing"
    /\ t # LmStudioRootB
    /\ dirs[t].state = "ok"
    /\ dirs' = [dirs EXCEPT ![LmStudioRootB] = dirs[t]]
    /\ UNCHANGED <<target_os, home, nextId, dPc, dResult, classifyVars, compatVars, probeVars, callVars, scanVars, shortcutVars, cacheVars>>

LinksNext ==
    \/ \E d \in DOMAIN dirs, name \in LinkNames, t \in DOMAIN dirs : AddLink(d, name, t)
    \/ \E t \in DOMAIN dirs : LinkRoot(t)
    \/ Discover

SpecLinks == LinksInit /\ [][LinksNext]_vars

-----------------------------------------------------------------------------
(* Shortcut harness: register_global_shortcut and                          *)
(* unregister_global_shortcut commands made one after another, the         *)
(* plugin's operations failing or not                                      *)

\* Shortcut commands made in a run.
MaxShortcutCalls == 3

ShortcutTexts == {"", " ", "Ctrl+K", "Control+K", "Alt+M", "bogus"}
KeyCombinations == {"control+KeyK", "alt+KeyM"}
\* the failures of a plugin operation that do not come from what is held
Faults == {"", "permission denied", "os error"}

ShortcutsInit ==
    /\ REGISTERED_SHORTCUTS = <<>>
    /\ registered = {}
    /\ others \in SUBSET KeyCombinations
    /\ kResult = Ok("()")
    /\ kCalls = 0
    /\ ClassifyIdle
    /\ DiscoverIdle
    /\ CompatIdle
    /\ ProbeIdle
    /\ CallsIdle
    /\ ScanIdle
    /\ CacheIdle

\* a command returned in state after
ShortcutCommand(after) ==
    /\ kCalls < MaxShortcutCalls
    /\ REGISTERED_SHORTCUTS' = after.tracked
    /\ registered' = after.held
    /\ kResult' = after.result
    /\ kCalls' = kCalls + 1
    /\ UNCHANGED <<others, classifyVars, discoverVars, compatVars, probeVars, callVars, scanVars, cacheVars>>

\* the register_global_shortcut command
Register(shortcut, all_fails, fault) ==
    ShortcutCommand(register_global_shortcut(shortcut, REGISTERED_SHORTCUTS, registered,
                                             others, all_fails, fault))

\* the unregister_global_shortcut command
Unregister(shortcut, fault) ==
    ShortcutCommand(unregister_global_shortcut(shortcut, REGISTERED_SHORTCUTS, registered,
                                               fault))

ShortcutsNext ==
    \/ \E shortcut \in ShortcutTexts, all_fails \in BOOLEAN, fault \in Faults :
          Register(shortcut, all_fails, fault)
    \/ \E shortcut \in ShortcutTexts, fault \in Faults : Unregister(shortcut, fault)

SpecShortcuts == ShortcutsInit /\ [][ShortcutsNext]_vars

-----------------------------------------------------------------------------
(* Cache harness: concurrent tool_web_search requests.  A request looks    *)
(* the key up under the lock and, on a miss, searches outside the lock and *)
(* stores under the lock again; time passes and the system clock may be    *)
(* set back between any two steps.                                         *)

\* Requests made in a run.
MaxRequests == 2
\* Steps of time in a run.
MaxTicks == 4

TickSecs == CACHE_DURATION_SECS \div 3

SearchInput(query, engine, top_k) == [query |-> query, engine |-> engine, top_k |-> top_k]

\* requests that share a key text through the defaults, the trimming or
\* the "::" separator, and one for another engine
SearchInputs ==
    { SearchInput("Rust", None, None),
      SearchInput("rust ", Some("duckduckgo"), Some(5)),
      SearchInput("rust", Some("tavily"), Some(5)),
      SearchInput("1::q", Some("x"), Some(5)),
      SearchInput("q", Some("x::5"), Some(1)) }

CacheInit ==
    /\ SEARCH_CACHE = <<>>
    /\ clock = 0
    /\ elapsed = 0
    /\ setBack = FALSE
    /\ requests = <<>>
    /\ ClassifyIdle
    /\ DiscoverIdle
    /\ CompatIdle
    /\ ProbeIdle
    /\ CallsIdle
    /\ ScanIdle
    /\ ShortcutsIdle

CacheUnchanged ==
    UNCHANGED <<classifyVars, discoverVars, compatVars, probeVars, callVars, scanVars, shortcutVars>>

\* what the key stands for in a request: engine, top_k, lower-cased query
KeyTriple(input) == <<engine_of(input), top_k_of(input), to_lowercase(input.query)>>

\* a request with the entry it was served from the cache, if it was
Request(input, pc, result, served) ==
    [input |-> input, pc |-> pc, result |-> result, served |-> served,
     at |-> elapsed, read |-> clock]

\* a request after its lookup found the entry or nothing
AfterLookup(input, found) ==
    IF found.some THEN Request(input, "done", Ok(found.value.output), found)
    ELSE Request(input, "searching", Err(""), None)

\* tool_web_search up to the search: the key is looked up under the lock
Call(input) ==
    /\ Len(requests) < MaxRequests
    /\ requests' = Append(requests, AfterLookup(input, cache_lookup(SEARCH_CACHE, cache_key(input), clock)))
    /\ UNCHANGED <<SEARCH_CACHE, clock, elapsed, setBack>>
    /\ CacheUnchanged

\* the entry a search that succeeded now stores
NewEntry(input) ==
    [output |-> search_output(input, elapsed), timestamp |-> clock,
     key |-> cache_key(input), wanted |-> KeyTriple(input), stored |-> elapsed]

\* the search succeeded: the output is stored and returned
SearchOk(i) ==
    /\ i \in 1..Len(requests)
    /\ requests[i].pc = "searching"
    /\ SEARCH_CACHE' = cache_store(SEARCH_CACHE, cache_key(requests[i].input), NewEntry(requests[i].input), clock)
    /\ requests' = [requests EXCEPT ![i] = Request(requests[i].input, "done", Ok(search_output(requests[i].input, elapsed)), None)]
    /\ UNCHANGED <<clock, elapsed, setBack>>
    /\ CacheUnchanged

\* the search failed: its error is returned by the ? operator
SearchFailed(i) ==
    /\ i \in 1..Len(requests)
    /\ requests[i].pc = "searching"
    /\ requests' = [requests EXCEPT ![i] = Request(requests[i].input, "done", Err("search failed"), None)]
    /\ UNCHANGED <<SEARCH_CACHE, clock, elapsed, setBack>>
    /\ CacheUnchanged

\* time passes
Tick ==
    /\ elapsed < MaxTicks * TickSecs
    /\ elapsed' = elapsed + TickSecs
    /\ clock' = clock + TickSecs
    /\ UNCHANGED <<SEARCH_CACHE, setBack, requests>>
    /\ CacheUnchanged

\* the system clock is set back
SetClockBack ==
    /\ ~setBack
    /\ clock >= TickSecs
    /\ clock' = clock - TickSecs
    /\ setBack' = TRUE
    /\ UNCHANGED <<SEARCH_CACHE, elapsed, requests>>
    /\ CacheUnchanged

CacheNext ==
    \/ \E input \in SearchInputs : Call(input)
    \/ \E i \in 1..MaxRequests : SearchOk(i)
    \/ \E i \in 1..MaxRequests : SearchFailed(i)
    \/ Tick
    \/ SetClockBack

SpecCache == CacheInit /\ [][CacheNext]_vars

-----------------------------------------------------------------------------
(* Properties of the classifier, stated on the components the path was     *)
(* built from                                                              *)

\* s ends in suf: some prefix of s followed by suf is s
HasSuffix(s, suf) == \E k \in 0..Len(s) : SubSeq(s, 1, k) \o suf = s

\* n is f without its last extension (f itself when f has no "." after its
\* first character)
IsStemOf(n, f) ==
    \/ /\ n = f
       /\ \A k \in 2..Len(f) : SubSeq(f, k, k) # "."
    \/ \E k \in 2..Len(f) :
          /\ SubSeq(f, k, k) = "."
          /\ \A j \in (k + 1)..Len(f) : SubSeq(f, j, j) # "."
          /\ n = SubSeq(f, 1, k - 1)

ManifestDirs == {i \in 1..Len(cDirs) : cDirs[i] = "manifests"}

\* the path components after the first manifests directory
AfterManifests ==
    LET i == CHOOSE m \in ManifestDirs : \A j \in ManifestDirs : m <= j
    IN SubSeq(cDirs \o <<cFile>>, i + 1, Len(cDirs) + 1)

Classified == cPc = "done" /\ cOut.some

\* C6: try_parse_model_file returns a LocalModel exactly when the file name
\* ends in .gguf, .bin or .safetensors, or the source is Ollama and the file
\* name is exactly "model".
C6_QualificationRule ==
    cPc = "done" =>
        (cOut.some <=>
            \/ HasSuffix(cFile, ".gguf")
            \/ HasSuffix(cFile, ".bin")
            \/ HasSuffix(cFile, ".safetensors")
            \/ (cSource = "Ollama" /\ cFile = "model"))

\* a file named "model" was accepted under Ollama
C6_Witness ==
    /\ Classified
    /\ cFile = "model"
    /\ cSource = "Ollama"

\* C7: for an Ollama path with a manifests directory the name is the first
\* two components after it joined by ":", the single component when there is
\* only one; without a manifests directory it is the file stem.
C7_OllamaName ==
    (Classified /\ cSource = "Ollama") =>
        IF ManifestDirs # {}
        THEN cOut.value.name =
                IF Len(AfterManifests) >= 2
                THEN AfterManifests[1] \o ":" \o AfterManifests[2]
                ELSE AfterManifests[1]
        ELSE IsStemOf(cOut.value.name, cFile)

\* the same, for paths with exactly one manifests directory
C7_OllamaNameSingleManifests ==
    Cardinality(ManifestDirs) <= 1 => C7_OllamaName

\* C8: for LmStudio and Other the name is the file stem, whatever the
\* directories are; foo.gguf is named "foo".
C8_StemName ==
    (Classified /\ cSource # "Ollama") =>
        /\ IsStemOf(cOut.value.name, cFile)
        /\ (cFile = "foo.gguf" => cOut.value.name = "foo")

\* foo.gguf below a manifests directory was classified under LmStudio
C8_Witness ==
    /\ Classified
    /\ cSource = "LmStudio"
    /\ ManifestDirs # {}
    /\ cFile = "foo.gguf"
    /\ cOut.value.name = "foo"

\* C9: the format follows from the file-name suffix alone, for every source,
\* and is one of GGUF, BIN, SafeTensors or absent; a file named "model" has
\* none.
C9_FormatBySuffix ==
    Classified =>
        /\ cOut.value.format =
              IF HasSuffix(cFile, ".gguf") THEN Some("GGUF")
              ELSE IF HasSuffix(cFile, ".bin") THEN Some("BIN")
              ELSE IF HasSuffix(cFile, ".safetensors") THEN Some("SafeTensors")
              ELSE None
        /\ cOut.value.format \in {Some("GGUF"), Some("BIN"), Some("SafeTensors"), None}
        /\ (cFile = "model" => cOut.value.format = None)

\* an Ollama file named "model" was classified and has no format, and so was
\* a .safetensors file
C9_Witness ==
    /\ Classified
    /\ \/ cFile = "model" /\ cOut.value.format = None
       \/ cFile = "w.safetensors" /\ cOut.value.format = Some("SafeTensors")

-----------------------------------------------------------------------------
(* Properties of discovery, stated on the filesystem that was laid out     *)

Discovered == dPc = "done" /\ dResult.ok

\* the sum of size_bytes over the entries of a model sequence
RECURSIVE SizeOfFirst(_, _)
SizeOfFirst(models, n) ==
    IF n = 0 THEN 0 ELSE SizeOfFirst(models, n - 1) + models[n].size_bytes

\* the path discovery uses for a provider directory (home directory known)
ProviderPath(r) ==
    IF r = OllamaRoot THEN get_ollama_models_directory.value
    ELSE IF r = LmStudioRootA THEN get_lmstudio_directories[1]
    ELSE get_lmstudio_directories[2]

\* listing directory r fails: it cannot be opened, or reading one of its
\* entries fails
ListingFails(r) ==
    \/ dirs[r].state = "unreadable"
    \/ /\ dirs[r].state = "ok"
       /\ \E i \in 1..Len(dirs[r].entries) : dirs[r].entries[i].kind = "err"

\* the Ollama scan fails: no home directory, or listing its directory fails
OllamaScanFails == ~home \/ ListingFails(OllamaRoot)

\* the model files lying directly in provider directory r, as paths
TopLevelModelPaths(r) ==
    {PathJoin(ProviderPath(r), dirs[r].entries[i].name, target_os) :
        i \in {j \in 1..Len(dirs[r].entries) :
                  /\ dirs[r].entries[j].kind = "file"
                  /\ dirs[r].entries[j].name \in {"a.gguf"} \cup
                        (IF r = OllamaRoot THEN {"model"} ELSE {})}}

ResultPaths(source) ==
    {dResult.value.models[i].path :
        i \in {j \in 1..Len(dResult.value.models) :
                  dResult.value.models[j].source = source}}

\* C1: in every discovery result total_count is the length of models and
\* total_size_bytes is the sum of their size_bytes.
C1_TotalsMatchModels ==
    Discovered =>
        /\ dResult.value.total_count = Len(dResult.value.models)
        /\ dResult.value.total_size_bytes =
              SizeOfFirst(dResult.value.models, Len(dResult.value.models))

\* a result with an Ollama and an LM Studio model of different sizes
C1_Witness ==
    /\ Discovered
    /\ dResult.value.total_count = 2
    /\ dResult.value.total_size_bytes = 5
    /\ ResultPaths("Ollama") # {}
    /\ ResultPaths("LmStudio") # {}

\* C2: discover_local_models returns Ok whatever state the provider
\* directories are in.
C2_NeverFails == dPc = "done" => dResult.ok

\* an Ollama failure is reported next to an LM Studio model that was found
C2_Witness ==
    /\ Discovered
    /\ OllamaScanFails
    /\ dResult.value.errors # <<>>
    /\ dResult.value.models # <<>>

\* C3: a failing Ollama scan yields exactly one error, tagged Ollama, and
\* nothing else yields an error; every LM Studio directory that can be listed
\* has its model files in the result, whether or not the Ollama scan or the
\* other LM Studio directory failed.
C3_AsymmetricFailures ==
    Discovered =>
        /\ OllamaScanFails =>
              /\ Len(dResult.value.errors) = 1
              /\ StartsWith(dResult.value.errors[1], "Ollama")
        /\ ~OllamaScanFails => dResult.value.errors = <<>>
        /\ home => \A r \in {LmStudioRootA, LmStudioRootB} :
              (dirs[r].state = "ok" /\ ~ListingFails(r)) =>
                  TopLevelModelPaths(r) \subseteq ResultPaths("LmStudio")

\* the Ollama scan and the first LM Studio directory fail, and the second LM
\* Studio directory's model is in the result
C3_Witness ==
    /\ Discovered
    /\ home
    /\ ListingFails(OllamaRoot)
    /\ ListingFails(LmStudioRootA)
    /\ TopLevelModelPaths(LmStudioRootB) # {}
    /\ TopLevelModelPaths(LmStudioRootB) \subseteq ResultPaths("LmStudio")
    /\ Len(dResult.value.errors) = 1

\* C4: when reading an entry of the Ollama directory fails part-way through
\* the listing, the model files listed before it are still in the result.
C4_PartialResultsKept ==
    (Discovered /\ home /\ dirs[OllamaRoot].state = "ok") =>
        \A i \in 1..Len(dirs[OllamaRoot].entries) :
            LET e == dirs[OllamaRoot].entries[i]
            IN (/\ e.kind = "file"
                /\ e.name \in {"model", "a.gguf"}
                /\ \A j \in 1..(i - 1) : dirs[OllamaRoot].entries[j].kind # "err")
               => PathJoin(ProviderPath(OllamaRoot), e.name, target_os)
                     \in ResultPaths("Ollama")

ParentOf(d) ==
    CHOOSE p \in DOMAIN dirs :
        \E i \in 1..Len(dirs[p].entries) :
            dirs[p].entries[i].kind = "dir" /\ dirs[p].entries[i].id = d

\* the name subdirectory d is listed under
NameOf(d) ==
    LET es == dirs[ParentOf(d)].entries
    IN es[CHOOSE i \in 1..Len(es) : es[i].kind = "dir" /\ es[i].id = d].name

\* the provider directory d lies below, and the path the scan reaches d by
RECURSIVE RootOf(_)
RootOf(d) == IF d \in Roots THEN d ELSE RootOf(ParentOf(d))

RECURSIVE DirPath(_)
DirPath(d) ==
    IF d \in Roots THEN ProviderPath(d)
    ELSE PathJoin(DirPath(ParentOf(d)), NameOf(d), target_os)

\* every directory from the provider directory down to d can be listed
RECURSIVE ChainListable(_)
ChainListable(d) ==
    /\ dirs[d].state = "ok"
    /\ ~ListingFails(d)
    /\ d \notin Roots => ChainListable(ParentOf(d))

SourceOf(d) == IF RootOf(d) = OllamaRoot THEN "Ollama" ELSE "LmStudio"

\* the files of directory d that qualify as models but whose metadata
\* cannot be read, as paths
UnreadableModelPaths(d) ==
    {PathJoin(DirPath(d), dirs[d].entries[i].name, target_os) :
        i \in {j \in 1..Len(dirs[d].entries) :
                  /\ dirs[d].entries[j].kind = "file"
                  /\ ~dirs[d].entries[j].meta_ok
                  /\ \/ HasSuffix(dirs[d].entries[j].name, ".gguf")
                     \/ HasSuffix(dirs[d].entries[j].name, ".bin")
                     \/ HasSuffix(dirs[d].entries[j].name, ".safetensors")
                     \/ (SourceOf(d) = "Ollama" /\ dirs[d].entries[j].name = "model")}}

\* the entries of the result that carry path p
ResultEntries(p) ==
    {j \in 1..Len(dResult.value.models) : dResult.value.models[j].path = p}

HoldersIn(d, name) ==
    {i \in 1..Len(dirs[d].entries) :
        /\ dirs[d].entries[i].kind = "dir"
        /\ name \in NamesIn(dirs[d].entries[i].id)}

\* C24: within one discovery result no two entries of models have the same
\* path, across the Ollama directory and the LM Studio directories, also
\* when directories are reached through symbolic links.
C24_PathIsUniqueKey ==
    Discovered =>
        \A i, j \in 1..Len(dResult.value.models) :
            dResult.value.models[i].path = dResult.value.models[j].path => i = j

\* the Ollama directory reaches one directory under two names, "lib" and a
\* link, and the second LM Studio directory is a link to the first: the one
\* file a.gguf of each is reported twice, under two paths each
C24_Witness ==
    /\ Discovered
    /\ Cardinality(HoldersIn(OllamaRoot, "a.gguf")) = 2
    /\ \A i \in HoldersIn(OllamaRoot, "a.gguf") : dirs[OllamaRoot].entries[i].id = LibDir
    /\ dirs[LmStudioRootB] = dirs[LmStudioRootA]
    /\ Len(dResult.value.models) = 5
    /\ Cardinality({dResult.value.models[i].path : i \in 1..5}) = 5

-----------------------------------------------------------------------------
(* Properties of one scan, stated on the tree that was laid out            *)

Scanned == sPc = "done"

\* the directories of the tree: the scanned directory and all below it
TreeDirs == {d \in DOMAIN dirs : RootOf(d) = ScanRoot}

\* every directory of the tree can be opened and every entry read
TreeReadable == \A d \in TreeDirs : dirs[d].state = "ok" /\ ~ListingFails(d)

\* the regular files of directory d that qualify for source, as paths
QualifyingPaths(d, source) ==
    {PathJoin(DirPath(d), dirs[d].entries[i].name, target_os) :
        i \in {j \in 1..Len(dirs[d].entries) :
                  /\ dirs[d].entries[j].kind = "file"
                  /\ \/ HasSuffix(dirs[d].entries[j].name, ".gguf")
                     \/ HasSuffix(dirs[d].entries[j].name, ".bin")
                     \/ HasSuffix(dirs[d].entries[j].name, ".safetensors")
                     \/ (source = "Ollama" /\ dirs[d].entries[j].name = "model")}}

\* the entries of the scan's result that carry path p
ScanEntries(p) == {j \in 1..Len(sOut.value) : sOut.value[j].path = p}

\* the nesting of directory d below the scanned directory
RECURSIVE DepthOf(_)
DepthOf(d) == IF d \in Roots THEN 0 ELSE 1 + DepthOf(ParentOf(d))

\* C21: on a finite tree of readable directories the scan returns, and its
\* result holds exactly one LocalModel for each qualifying regular file at
\* any depth, none for any other file, each with the source tag of the
\* top-level call.
C21_OneModelPerQualifyingFile ==
    (Scanned /\ TreeReadable) =>
        /\ sOut.ok
        /\ \A d \in TreeDirs : \A p \in QualifyingPaths(d, sSource) :
              Cardinality(ScanEntries(p)) = 1
        /\ \A j \in 1..Len(sOut.value) :
              /\ sOut.value[j].source = sSource
              /\ \E d \in TreeDirs : sOut.value[j].path \in QualifyingPaths(d, sSource)

\* a qualifying file two levels down, next to a file that does not
\* qualify: one model returned, with the tag of the call
C21_Witness ==
    /\ Scanned
    /\ TreeReadable
    /\ sOut.ok
    /\ Len(sOut.value) = 1
    /\ sOut.value[1].source = sSource
    /\ \E d \in TreeDirs :
          /\ DepthOf(d) = 2
          /\ QualifyingPaths(d, sSource) # {}
          /\ \E i \in 1..Len(dirs[d].entries) : dirs[d].entries[i].name = "x.txt"

\* the directories whose models the scan can return: those that list
\* without failure and lie below such directories only
Reached == {d \in TreeDirs : ChainListable(d)}

\* p lies in directory f or below it
Below(p, f) == StartsWith(p, DirPath(f) \o MainSeparator(target_os))

\* C22: a failure while scanning a subdirectory, at any depth, is swallowed:
\* the scan of a directory that lists without failure succeeds, returns the
\* models of every file and subdirectory beside the failing one, before and
\* after it, and no model from the failing subdirectory.
C22_SubdirectoryFailureSwallowed ==
    Scanned =>
        /\ sOut.ok <=> ~ListingFails(ScanRoot)
        /\ sOut.ok =>
              /\ \A d \in Reached : \A p \in QualifyingPaths(d, sSource) :
                    Cardinality(ScanEntries(p)) = 1
              /\ \A f \in TreeDirs \ Reached : \A j \in 1..Len(sOut.value) :
                    ~Below(sOut.value[j].path, f)

\* the position of subdirectory f among the entries of its parent
PositionOf(f) ==
    LET es == dirs[ParentOf(f)].entries
    IN CHOOSE i \in 1..Len(es) : es[i].kind = "dir" /\ es[i].id = f

\* a subdirectory holding a model file fails on a later entry; the scan
\* succeeds with the model of a file listed after that subdirectory and
\* without the subdirectory's own
C22_Witness ==
    /\ Scanned
    /\ sOut.ok
    /\ \E f \in TreeDirs \ Roots :
          /\ ParentOf(f) = ScanRoot
          /\ ListingFails(f)
          /\ QualifyingPaths(f, sSource) # {}
          /\ \E i \in (PositionOf(f) + 1)..Len(dirs[ScanRoot].entries) :
                /\ dirs[ScanRoot].entries[i].kind = "file"
                /\ ScanEntries(PathJoin(DirPath(ScanRoot), dirs[ScanRoot].entries[i].name,
                                        target_os)) # {}
          /\ \A j \in 1..Len(sOut.value) : ~Below(sOut.value[j].path, f)

-----------------------------------------------------------------------------
(* Properties of the shortcut commands                                     *)

\* the key combinations the tracked list names
TrackedCombinations ==
    {from_str(REGISTERED_SHORTCUTS[i]).value : i \in 1..Len(REGISTERED_SHORTCUTS)}

\* C27: after any sequence of register and unregister commands, whichever
\* plugin operations failed, REGISTERED_SHORTCUTS names exactly the
\* shortcuts the application holds registered, and at most one.
C27_TrackedMatchesRegistered ==
    /\ TrackedCombinations = registered
    /\ Len(REGISTERED_SHORTCUTS) <= 1

\* the list itself never holds more than one text
C27_ListNeverLong == Len(REGISTERED_SHORTCUTS) <= 1

-----------------------------------------------------------------------------
(* Properties of the search cache                                          *)

\* the requests answered from the cache
Served == {i \in 1..Len(requests) : requests[i].served.some}

\* a failed search changes nothing in the cache
FailedSearchKeepsCache ==
    \A i \in 1..Len(requests) :
        (requests[i].pc = "searching" /\ requests'[i].pc = "done" /\ ~requests'[i].result.ok)
            => SEARCH_CACHE' = SEARCH_CACHE

\* the entry was stored for the same engine, top_k and lower-cased query
\* less than 300 seconds before the request
ServedSameTripleInTime(i) ==
    /\ requests[i].served.value.wanted = KeyTriple(requests[i].input)
    /\ requests[i].at - requests[i].served.value.stored < 300

\* C28 as stated: a cached output is returned only when it was stored
\* under the same (engine, top_k, lower-cased query) less than 300 seconds
\* earlier, and a failed search leaves the cache unchanged.
C28_SameKeyWithin300Seconds ==
    /\ [](\A i \in Served : ServedSameTripleInTime(i))
    /\ [][FailedSearchKeepsCache]_vars

\* the entry was stored under the same key text, and its timestamp is less
\* than 300 seconds behind the clock reading of the lookup (a timestamp
\* ahead of that reading passes); less than 300 seconds have really passed
\* when the clock was never set back
ServedSameKeyTextByClock(i) ==
    /\ requests[i].served.value.key
           = engine_of(requests[i].input) \o "::" \o u8_to_string(top_k_of(requests[i].input))
                 \o "::" \o Trim(to_lowercase(requests[i].input.query))
    /\ requests[i].read - requests[i].served.value.timestamp < 300
    /\ ~setBack => requests[i].at - requests[i].served.value.stored < 300

\* What does hold of every request answered from the cache: the key text
\* engine::top_k::query is the same, the query lower-cased and trimmed, and
\* the timestamp is less than 300 seconds behind the system clock at the
\* lookup; and a failed search leaves the cache unchanged.
CacheHitsFollowKeyTextAndClock ==
    /\ [](\A i \in Served : ServedSameKeyTextByClock(i))
    /\ [][FailedSearchKeepsCache]_vars

-----------------------------------------------------------------------------
(* Properties of the compatibility evaluator, stated on the host's answers *)

Evaluated == vPc = "done" /\ vOut.ok

\* C10: memory_sufficient holds exactly when the probed available memory
\* less 2.0 GB is at least required_memory_gb, storage_sufficient exactly
\* when the probed available storage is at least the model size plus 1.0 GB,
\* and is_compatible exactly when both hold.
C10_SufficiencyFlags ==
    Evaluated =>
        /\ vOut.value.memory_sufficient <=>
              (host.available_memory.value - 2 * UnitsPerGb) * Gb
                  >= vOut.value.required_memory_gb * UnitsPerGb
        /\ vOut.value.storage_sufficient <=>
              host.available_storage.value >= vSize + UnitsPerGb
        /\ vOut.value.is_compatible <=>
              (vOut.value.memory_sufficient /\ vOut.value.storage_sufficient)

\* usable memory equals the requirement exactly while storage falls short
C10_Witness ==
    /\ Evaluated
    /\ (host.available_memory.value - 2 * UnitsPerGb) * Gb
           = vOut.value.required_memory_gb * UnitsPerGb
    /\ vOut.value.memory_sufficient
    /\ ~vOut.value.storage_sufficient
    /\ ~vOut.value.is_compatible

\* the probed figures and the model size as gigabyte values
ProbedUsableGb == (host.available_memory.value - 2 * UnitsPerGb) * (Gb \div UnitsPerGb)
ProbedStorageGb == host.available_storage.value * (Gb \div UnitsPerGb)
ModelSizeGb == vSize * (Gb \div UnitsPerGb)

\* name holds pat somewhere, letter case aside
Mentions(name, pat) ==
    \E i \in 1..(Len(name) - Len(pat) + 1) :
        to_lowercase(SubSeq(name, i, i + Len(pat) - 1)) = pat

\* the multiplier, in tenths, when the tests are taken in the order 70b, 13b,
\* vision/llava, 7b, code/coder
LargestFirstMultiplier(name) ==
    IF Mentions(name, "70b") \/ Mentions(name, "70-b") THEN 18
    ELSE IF Mentions(name, "13b") \/ Mentions(name, "13-b") THEN 16
    ELSE IF Mentions(name, "vision") \/ Mentions(name, "llava") THEN 17
    ELSE IF Mentions(name, "7b") \/ Mentions(name, "7-b") THEN 15
    ELSE IF Mentions(name, "code") \/ Mentions(name, "coder") THEN 14
    ELSE 12

\* the multiplier, in tenths, when the tests are taken in the order 7b, 13b,
\* 70b, vision/llava, code/coder
SmallestFirstMultiplier(name) ==
    IF Mentions(name, "7b") \/ Mentions(name, "7-b") THEN 15
    ELSE IF Mentions(name, "13b") \/ Mentions(name, "13-b") THEN 16
    ELSE IF Mentions(name, "70b") \/ Mentions(name, "70-b") THEN 18
    ELSE IF Mentions(name, "vision") \/ Mentions(name, "llava") THEN 17
    ELSE IF Mentions(name, "code") \/ Mentions(name, "coder") THEN 14
    ELSE 12

\* a model of 2 GB or more: its requirement is above the 2.0 floor whatever
\* the multiplier, so the requirement shows the multiplier
Unclamped == Evaluated /\ vSize >= 2 * UnitsPerGb

\* C11 (as claimed): the multiplier is chosen case-insensitively, first
\* match winning, in the precedence 70b/70-b (1.8), 13b/13-b (1.6),
\* vision/llava (1.7), 7b/7-b (1.5), code/coder (1.4), otherwise 1.2.
C11_MultiplierPrecedence ==
    Unclamped =>
        vOut.value.required_memory_gb * 10 = ModelSizeGb * LargestFirstMultiplier(vName)

\* C11 (amended): the multiplier is chosen case-insensitively, first match
\* winning, in the precedence 7b/7-b (1.5), 13b/13-b (1.6), 70b/70-b (1.8),
\* vision/llava (1.7), code/coder (1.4), otherwise 1.2; a name holding both
\* "llava" and "7b" gets 1.5.
C11_MultiplierInCodeOrder ==
    Unclamped =>
        /\ vOut.value.required_memory_gb * 10 = ModelSizeGb * SmallestFirstMultiplier(vName)
        /\ vName = "llava-7b" => vOut.value.required_memory_gb * 10 = ModelSizeGb * 15

\* a 4 GB model named llava-7b was given 6.0 GB, the 7b multiplier
C11_Witness ==
    /\ Unclamped
    /\ vName = "llava-7b"
    /\ vSize = 4 * UnitsPerGb
    /\ vOut.value.required_memory_gb = 6 * Gb

\* C12: required_memory_gb is max(2.0, size_gb * multiplier(name)): never
\* below 2.0, 2.0 when the product is below it (0.1 GB named "tiny") and the
\* product itself otherwise (4 GB named "model-7b-instruct" gives 6.0).
C12_FloorOfTwoGb ==
    Evaluated =>
        /\ vOut.value.required_memory_gb >= 2 * Gb
        /\ vOut.value.required_memory_gb * 10 =
              Max(2 * Gb * 10, ModelSizeGb * SmallestFirstMultiplier(vName))
        /\ (vSize * 10 = UnitsPerGb /\ vName = "tiny") =>
              vOut.value.required_memory_gb = 2 * Gb
        /\ (vSize = 4 * UnitsPerGb /\ vName = "model-7b-instruct") =>
              vOut.value.required_memory_gb = 6 * Gb

\* a 0.1 GB model named "tiny" was raised to 2.0 GB
C12_Witness ==
    /\ Evaluated
    /\ vSize * 10 = UnitsPerGb
    /\ vName = "tiny"
    /\ ModelSizeGb * SmallestFirstMultiplier(vName) < 2 * Gb * 10
    /\ vOut.value.required_memory_gb = 2 * Gb

\* memory_ratio >= t and storage_ratio >= t, t in tenths, the ratios being
\* usable memory over required memory and available storage over model size
\* plus 1.0 GB, each 1.0 when its guard (required > 0, size > 0) fails
MemoryRatioAtLeast(t) ==
    IF vOut.value.required_memory_gb > 0
    THEN ProbedUsableGb * 10 >= t * vOut.value.required_memory_gb
    ELSE 10 >= t

StorageRatioAtLeast(t) ==
    IF vSize > 0
    THEN ProbedStorageGb * 10 >= t * (ModelSizeGb + Gb)
    ELSE 10 >= t

\* the scores in hundredths
ExpectedMemoryScore ==
    IF MemoryRatioAtLeast(20) THEN 100
    ELSE IF MemoryRatioAtLeast(15) THEN 80
    ELSE IF MemoryRatioAtLeast(10) THEN 60
    ELSE 0

ExpectedStorageScore ==
    IF StorageRatioAtLeast(20) THEN 100
    ELSE IF StorageRatioAtLeast(15) THEN 90
    ELSE IF StorageRatioAtLeast(10) THEN 70
    ELSE 0

\* C13: confidence_level is memory_score * 0.7 + storage_score * 0.3 clamped
\* to [0.0, 1.0] with the scores 1.0 / 0.8 / 0.6 / 0.0 and 1.0 / 0.9 / 0.7 /
\* 0.0 at ratios >= 2.0 / >= 1.5 / >= 1.0 / below; it lies in [0.0, 1.0], and
\* 10 GB available with 6 GB required and a storage ratio >= 2.0 gives 0.72.
C13_ConfidenceLevel ==
    Evaluated =>
        /\ vOut.value.confidence_level * 10 =
              Max(0, Min(1000, ExpectedMemoryScore * 7 + ExpectedStorageScore * 3))
        /\ vOut.value.confidence_level >= 0
        /\ vOut.value.confidence_level <= 100
        /\ (/\ host.available_memory.value = 10 * UnitsPerGb
            /\ vOut.value.required_memory_gb = 6 * Gb
            /\ StorageRatioAtLeast(20)) => vOut.value.confidence_level = 72

\* 10 GB available, 6 GB required, storage ratio 2.0: confidence 0.72
C13_Witness ==
    /\ Evaluated
    /\ host.available_memory.value = 10 * UnitsPerGb
    /\ vOut.value.required_memory_gb = 6 * Gb
    /\ host.available_storage.value = 10 * UnitsPerGb
    /\ vSize = 4 * UnitsPerGb
    /\ vOut.value.confidence_level = 72

ProbeSucceeds ==
    /\ host.total_memory.ok
    /\ host.available_memory.ok
    /\ host.available_storage.ok

\* C14: no ratio is taken over zero: for a model of size 0 a verdict is
\* returned whenever the probe succeeds and its confidence is that of a
\* storage ratio of 1.0 whatever the available storage; the memory ratio is
\* taken over a requirement that is always above zero.
C14_NoDivisionByZero ==
    /\ (vPc = "done" /\ vSize = 0 /\ ProbeSucceeds) => vOut.ok
    /\ Evaluated => vOut.value.required_memory_gb > 0
    /\ (Evaluated /\ vSize = 0) =>
          vOut.value.confidence_level * 10 = ExpectedMemoryScore * 7 + 70 * 3

\* a model of size 0 on a host without free storage: the storage flag is
\* false and the confidence still carries the storage score of ratio 1.0
C14_Witness ==
    /\ Evaluated
    /\ vSize = 0
    /\ host.available_storage.value = 0
    /\ ~vOut.value.storage_sufficient
    /\ vOut.value.confidence_level = 91

\* the warnings by their texts
WarningTexts == [i \in 1..Len(vOut.value.warnings) |-> vOut.value.warnings[i].text]

ProbedCores == IF host.parallelism.some THEN host.parallelism.value ELSE 1

ExpectedMemoryWarning ==
    IF ~vOut.value.memory_sufficient THEN <<"Insufficient RAM">>
    ELSE IF ~MemoryRatioAtLeast(15) THEN <<"Tight memory">>
    ELSE <<>>

ExpectedStorageWarning ==
    IF ~vOut.value.storage_sufficient THEN <<"Insufficient storage">> ELSE <<>>

ExpectedCpuWarning ==
    IF ProbedCores < 4
    THEN <<"CPU has fewer than 4 cores. Model inference may be slow.">>
    ELSE <<>>

\* C15: warnings is, in this order, at most one memory warning
\* (insufficient RAM when memory_sufficient is false, else tight memory when
\* memory_ratio < 1.5), the insufficient-storage warning iff
\* storage_sufficient is false, and the low-core warning iff cpu_cores < 4;
\* with 2 cores the low-core warning is always there.
C15_WarningOrder ==
    Evaluated =>
        /\ WarningTexts =
              ExpectedMemoryWarning \o ExpectedStorageWarning \o ExpectedCpuWarning
        /\ host.parallelism = Some(2) =>
              /\ vOut.value.warnings # <<>>
              /\ WarningTexts[Len(WarningTexts)] = ExpectedCpuWarning[1]

\* all three of tight memory, insufficient storage and low core count
C15_Witness ==
    /\ Evaluated
    /\ host.parallelism = Some(2)
    /\ Len(vOut.value.warnings) = 3
    /\ WarningTexts[1] = "Tight memory"
    /\ WarningTexts[2] = "Insufficient storage"

\* the error of the first metric query that failed
FirstProbeError ==
    IF ~host.total_memory.ok THEN host.total_memory.err
    ELSE IF ~host.available_memory.ok THEN host.available_memory.err
    ELSE host.available_storage.err

\* C16: validate_model_compatibility returns an error exactly when one of
\* the total-memory, available-memory and available-storage queries fails,
\* the error being that query's; otherwise it returns a ModelCompatibility,
\* for every size and name.
C16_FailsOnlyWithProbe ==
    vPc = "done" =>
        /\ vOut.ok <=> ProbeSucceeds
        /\ ~vOut.ok => vOut.err = FirstProbeError

\* only the storage query failed, and the call failed with its error
C16_Witness ==
    /\ vPc = "done"
    /\ host.total_memory.ok
    /\ host.available_memory.ok
    /\ ~host.available_storage.ok
    /\ ~vOut.ok
    /\ vOut.err = host.available_storage.err

\* C25: the storage flag and the storage part of the confidence agree for
\* every model size, 0 included: when storage_sufficient is false the storage
\* score is 0.0, the confidence is the memory part alone and at most 0.7.
C25_StorageFlagMatchesScore ==
    (Evaluated /\ ~vOut.value.storage_sufficient) =>
        /\ vOut.value.confidence_level * 10 = ExpectedMemoryScore * 7
        /\ vOut.value.confidence_level <= 70

\* the confidence with its memory part taken off, in thousandths
StoragePart == vOut.value.confidence_level * 10 - ExpectedMemoryScore * 7

\* C25 holds for every model that has a size: there the flag is false
\* exactly when the storage part of the confidence is nothing.
C25_HoldsForSizedModels ==
    (Evaluated /\ vSize > 0) => (~vOut.value.storage_sufficient <=> StoragePart = 0)

\* C26: memory_sufficient is false exactly when the memory score is 0.0,
\* also when available memory is below the 2 GB reserve; so a false flag
\* gives a confidence of at most 0.3 and a true flag one of at least 0.42.
C26_MemoryFlagMatchesScore ==
    Evaluated =>
        /\ ~vOut.value.memory_sufficient <=>
              vOut.value.confidence_level * 10 = ExpectedStorageScore * 3
        /\ ~vOut.value.memory_sufficient => vOut.value.confidence_level <= 30
        /\ vOut.value.memory_sufficient => vOut.value.confidence_level >= 42

\* no memory available at all: usable memory is negative, the flag is false
\* and ample storage alone gives 0.3
C26_Witness ==
    /\ Evaluated
    /\ host.available_memory.value = 0
    /\ vOut.value.available_memory_gb < 0
    /\ ~vOut.value.memory_sufficient
    /\ StorageRatioAtLeast(20)
    /\ vOut.value.confidence_level = 30

-----------------------------------------------------------------------------
(* Properties of the resource probe, stated on the OS's output             *)

Probed == pPc = "done" /\ pOut.ok

\* the bytes a query's output reports, as a gigabyte value
ReportedGb(out) == (out.figure.value * Gb) \div UnitsPerGb

\* C17: when the OS output for total or available memory is missing or
\* cannot be parsed, the probe returns an error instead of a SystemResources
\* (so never one with that figure at 0); only the core count degrades, to 1,
\* and it is always at least 1.
C17_NoSilentZero ==
    pPc = "done" =>
        /\ (~os.total.figure.some \/ ~os.available.figure.some) => ~pOut.ok
        /\ pOut.ok =>
              /\ pOut.value.cpu_cores >= 1
              /\ os.parallelism = None => pOut.value.cpu_cores = 1

\* outside the macOS build the same holds, and the figures returned are
\* the ones the outputs report
C17_NoSilentZeroOffMacos ==
    (pPc = "done" /\ os.platform # "macos") =>
        /\ C17_NoSilentZero
        /\ pOut.ok =>
              /\ pOut.value.total_memory_gb = ReportedGb(os.total)
              /\ pOut.value.available_memory_gb = ReportedGb(os.available)
              /\ pOut.value.available_storage_gb = ReportedGb(os.storage)

\* whether each query, taken by itself on its own output, gives a value:
\* the macOS available-memory query gives one whenever vm_stat ran
TotalAnswered == os.total.figure.some
AvailableAnswered ==
    os.available.figure.some \/ (os.platform = "macos" /\ os.available.run)
StorageAnswered == os.home_set /\ os.storage.figure.some

\* the error of the first query that fails, in the order the probe makes them
FirstFailure ==
    IF ~TotalAnswered THEN total_memory_query(os.platform, os.total).err
    ELSE IF ~AvailableAnswered THEN available_memory_query(os.platform, os.available).err
    ELSE available_storage_query(os.platform, os.home_set, os.storage).err

-----------------------------------------------------------------------------
(* Properties of concurrent commands                                       *)

Finished(c) == calls[c].pc = "done"

\* what the probe returns when all its queries are answered by the host as
\* it is now
ResourcesNow ==
    system_resources_from(host.total_memory, host.available_memory,
                          host.available_storage, ProbedCores)

\* what call c returns when it runs alone on the host and the filesystem as
\* they are now
AloneResult(c) ==
    IF calls[c].kind = "discover" THEN discover_local_models
    ELSE IF calls[c].kind = "probe" \/ ~ResourcesNow.ok THEN ResourcesNow
    ELSE Ok(compatibility_on(ResourcesNow.value, calls[c].size, calls[c].name))

\* C18: calls share no state and cache nothing: however the steps of
\* concurrent discover, probe and validate calls interleave, a call during
\* whose queries the host and the filesystem stayed as they are returns what
\* it returns when run alone on them, also when an earlier call has read
\* other values before.
C18_CallsDoNotInterfere ==
    \A c \in CallIds :
        (Finished(c) /\ calls[c].undisturbed) => calls[c].result = AloneResult(c)

\* a validate call still holds the total memory it read before the host
\* changed, while a probe started after it has returned the new figures
C18_Witness ==
    /\ calls[1].kind = "validate"
    /\ calls[1].pc = "available"
    /\ calls[1].total = Ok(8 * UnitsPerGb)
    /\ calls[2].kind = "probe"
    /\ Finished(2)
    /\ calls[2].undisturbed
    /\ calls[2].result.ok
    /\ calls[2].result.value.total_memory_gb = 16 * Gb

\* a byte count of the host as a gigabyte value
GbOf(answer) == (answer.value * Gb) \div UnitsPerGb

\* the host's answers at the epoch of the probe's i-th query
AtQuery(i) == history[calls[Prober].reads[i] + 1]

\* resources holds the figures of host state h
DescribesInstant(resources, h) ==
    /\ h.available_storage.ok
    /\ resources.total_memory_gb = GbOf(h.total_memory)
    /\ resources.available_memory_gb = GbOf(h.available_memory)
    /\ resources.available_storage_gb = GbOf(h.available_storage)
    /\ resources.cpu_cores = h.parallelism.value

Snapshotted == Finished(Prober) /\ calls[Prober].result.ok

\* C19 (as claimed): the figures of a SystemResources all describe the host
\* at one common instant during the probe call, also when the host changes
\* while the probe runs; available_memory_gb never exceeds total_memory_gb.
C19_PointInTimeSnapshot ==
    Snapshotted =>
        /\ \E e \in calls[Prober].reads[1]..calls[Prober].reads[3] :
              DescribesInstant(calls[Prober].result.value, history[e + 1])
        /\ calls[Prober].result.value.available_memory_gb
              <= calls[Prober].result.value.total_memory_gb

\* C19 (amended): the figures come from queries made one after another
\* during the probe call (total memory, then available memory, then
\* available storage with the core count), each describing the host at the
\* instant of its own query; they describe one common instant when the host
\* does not change between the first and the last query.
C19_FigurePerQuery ==
    Snapshotted =>
        /\ calls[Prober].reads[1] <= calls[Prober].reads[2]
        /\ calls[Prober].reads[2] <= calls[Prober].reads[3]
        /\ calls[Prober].result.value.total_memory_gb = GbOf(AtQuery(1).total_memory)
        /\ calls[Prober].result.value.available_memory_gb = GbOf(AtQuery(2).available_memory)
        /\ calls[Prober].result.value.available_storage_gb = GbOf(AtQuery(3).available_storage)
        /\ calls[Prober].result.value.cpu_cores = AtQuery(3).parallelism.value
        /\ calls[Prober].reads[1] = calls[Prober].reads[3] =>
              DescribesInstant(calls[Prober].result.value, AtQuery(1))

\* the host changed between the total-memory and the available-memory
\* query: the result pairs 8 GB of total memory with 12 GB available
C19_Witness ==
    /\ Snapshotted
    /\ calls[Prober].reads[1] < calls[Prober].reads[2]
    /\ calls[Prober].result.value.total_memory_gb = 8 * Gb
    /\ calls[Prober].result.value.available_memory_gb = 12 * Gb

====
